---- MODULE Spec2Model ----
(***************************************************************************)
(* Model of the BLE provisioning engine of cyberfly-micropython            *)
(* (src/cyberfly_sdk/ble_provision.py, src/cyberfly_sdk/config.py).        *)
(*                                                                         *)
(* Bytes are integers 0..255, text is a sequence of code points.  The      *)
(* millisecond clock is MicroPython's ticks_ms(): a counter with an        *)
(* arbitrary reference point that wraps at TICKS_PERIOD.                   *)
(***************************************************************************)
EXTENDS Integers, Sequences, FiniteSets, TLC

\* ------------------------------------------------------------------------
\* Program constants (ble_provision.py:36-50)
\* ------------------------------------------------------------------------
_MAX_RX == 384
_FRAGMENT_TIMEOUT_MS == 2000
_IRQ_CENTRAL_CONNECT == 1
_IRQ_CENTRAL_DISCONNECT == 2
_IRQ_GATTS_WRITE == 3

\* MicroPython's ticks_ms() wraps at this period (a port parameter, 2^30 on
\* the ports this SDK targets); ticks_diff() is the signed ring difference.
TICKS_PERIOD == 2^30

ticks_add(t, d) == (t + d) % TICKS_PERIOD

ticks_diff(a, b) == ((a - b + TICKS_PERIOD \div 2) % TICKS_PERIOD) - TICKS_PERIOD \div 2

\* ------------------------------------------------------------------------
\* Byte values the code names
\* ------------------------------------------------------------------------
LBRACE == 123
RBRACE == 125
QUOTE == 34
BACKSLASH == 92

Max(a, b) == IF a >= b THEN a ELSE b

\* Python's s[-n:] for n >= 1: the last n elements, all of s when it is shorter.
LastN(s, n) == IF Len(s) <= n THEN s ELSE SubSeq(s, Len(s) - n + 1, Len(s))

\* ------------------------------------------------------------------------
\* _safe_decode: bytes.decode("utf-8", "ignore").  ASCII bytes decode to
\* themselves, a well-formed two-byte sequence to its code point, and bytes
\* that start no well-formed sequence are dropped.  (Inputs of the model use
\* no three- or four-byte lead bytes 0xE0..0xF4.)
\* ------------------------------------------------------------------------
\* what position i of b contributes to the decoded text: a lead byte 0xC2..0xDF
\* is never a continuation byte, so it starts a sequence wherever it stands,
\* and a continuation byte contributes nothing whether it was consumed by
\* the lead before it or dropped
DecodeAt(b, i) ==
  IF b[i] < 128 THEN <<b[i]>>
  ELSE IF b[i] \in 194..223 /\ i < Len(b) /\ b[i + 1] \in 128..191
       THEN <<(b[i] - 192) * 64 + (b[i + 1] - 128)>>
  ELSE <<>>

\* the decoded text of b[lo..hi], by halves
RECURSIVE Utf8Ignore(_, _, _)
Utf8Ignore(b, lo, hi) ==
  IF lo > hi THEN <<>>
  ELSE IF lo = hi THEN DecodeAt(b, lo)
  ELSE LET mid == (lo + hi) \div 2
       IN Utf8Ignore(b, lo, mid) \o Utf8Ignore(b, mid + 1, hi)

_safe_decode(b) == Utf8Ignore(b, 1, Len(b))

\* ------------------------------------------------------------------------
\* str.strip(): drop leading and trailing whitespace
\* ------------------------------------------------------------------------
IsSpace(c) == c \in {32, 9, 10, 11, 12, 13}

RECURSIVE LStrip(_)
LStrip(s) == IF s # <<>> /\ IsSpace(Head(s)) THEN LStrip(Tail(s)) ELSE s

RECURSIVE RStrip(_)
RStrip(s) ==
  IF s # <<>> /\ IsSpace(s[Len(s)]) THEN RStrip(SubSeq(s, 1, Len(s) - 1)) ELSE s

strip(s) == RStrip(LStrip(s))

\* ------------------------------------------------------------------------
\* json.loads on text: objects, strings, integers and the three literals.
\* A parsed value is [t, s, kv]: t the type, s the characters of a string or
\* the digits of a number, kv the members of an object in document order.
\* ------------------------------------------------------------------------
StrV(chars) == [t |-> "str", s |-> chars, kv |-> <<>>]
NumV(digits) == [t |-> "num", s |-> digits, kv |-> <<>>]
ObjV(members) == [t |-> "obj", s |-> <<>>, kv |-> members]
LitV(name) == [t |-> name, s |-> <<>>, kv |-> <<>>]
NoneV == LitV("null")

ParseFail == [ok |-> FALSE, val |-> NoneV, pos |-> 0]
ParseOk(v, p) == [ok |-> TRUE, val |-> v, pos |-> p]

JsonWs(c) == c \in {32, 9, 10, 13}

RECURSIVE SkipWs(_, _)
SkipWs(s, i) == IF i <= Len(s) /\ JsonWs(s[i]) THEN SkipWs(s, i + 1) ELSE i

IsDigit(c) == c \in 48..57
IsHex(c) == c \in 48..57 \/ c \in 65..70 \/ c \in 97..102
HexVal(c) == IF c \in 48..57 THEN c - 48 ELSE IF c \in 65..70 THEN c - 55 ELSE c - 87

\* the character a one-letter escape stands for
Unescape(c) ==
  CASE c = 98 -> 8 [] c = 102 -> 12 [] c = 110 -> 10 [] c = 114 -> 13
    [] c = 116 -> 9 [] OTHER -> c

\* The scan of a string body, one character at a time.  The scan state is
\* [mode, acc, n, v, pos]: mode "run", "esc" (after a backslash), "hex"
\* (inside \uXXXX: n digits read, value v so far), "done" (closing quote
\* read, pos the position after it) or "fail"; acc the characters so far.
StringStart == [mode |-> "run", acc |-> <<>>, n |-> 0, v |-> 0, pos |-> 0]

StringStep(st, c, j) ==
  CASE st.mode = "run" ->
         IF c = QUOTE THEN [st EXCEPT !.mode = "done", !.pos = j + 1]
         ELSE IF c = BACKSLASH THEN [st EXCEPT !.mode = "esc"]
         ELSE IF c < 32 THEN [st EXCEPT !.mode = "fail"]
         ELSE [st EXCEPT !.acc = Append(st.acc, c)]
    [] st.mode = "esc" ->
         IF c \in {QUOTE, BACKSLASH, 47, 98, 102, 110, 114, 116}
           THEN [st EXCEPT !.mode = "run", !.acc = Append(st.acc, Unescape(c))]
         ELSE IF c = 117 THEN [st EXCEPT !.mode = "hex", !.n = 0, !.v = 0]
         ELSE [st EXCEPT !.mode = "fail"]
    [] st.mode = "hex" ->
         IF ~IsHex(c) THEN [st EXCEPT !.mode = "fail"]
         ELSE IF st.n = 3
           THEN [st EXCEPT !.mode = "run", !.n = 0, !.v = 0,
                           !.acc = Append(st.acc, st.v * 16 + HexVal(c))]
         ELSE [st EXCEPT !.n = st.n + 1, !.v = st.v * 16 + HexVal(c)]
    [] OTHER -> st

\* the scan over s[lo..hi] from state st, by halves; it stops at the closing
\* quote or the first error
RECURSIVE StringScan(_, _, _, _)
StringScan(s, lo, hi, st) ==
  IF lo > hi \/ st.mode \in {"done", "fail"} THEN st
  ELSE IF lo = hi THEN StringStep(st, s[lo], lo)
  ELSE LET mid == (lo + hi) \div 2
       IN StringScan(s, mid + 1, hi, StringScan(s, lo, mid, st))

\* the string whose body starts at position j
ParseStringBody(s, j) ==
  LET st == StringScan(s, j, Len(s), StringStart)
  IN IF st.mode = "done" THEN ParseOk(StrV(st.acc), st.pos) ELSE ParseFail

RECURSIVE DigitsEnd(_, _)
DigitsEnd(s, i) == IF i <= Len(s) /\ IsDigit(s[i]) THEN DigitsEnd(s, i + 1) ELSE i

\* an integer: -?(0|[1-9][0-9]*), not followed by a fraction or an exponent
ParseNumber(s, i) ==
  LET d == IF s[i] = 45 THEN i + 1 ELSE i
      e == DigitsEnd(s, d)
  IN IF e = d THEN ParseFail
     ELSE IF s[d] = 48 /\ e > d + 1 THEN ParseOk(NumV(SubSeq(s, i, d)), d + 1)
     ELSE IF e <= Len(s) /\ s[e] \in {46, 69, 101} THEN ParseFail
     ELSE ParseOk(NumV(SubSeq(s, i, e - 1)), e)

ParseLiteral(s, i) ==
  IF i + 3 <= Len(s) /\ SubSeq(s, i, i + 3) = <<116, 114, 117, 101>>
    THEN ParseOk(LitV("true"), i + 4)
  ELSE IF i + 3 <= Len(s) /\ SubSeq(s, i, i + 3) = <<110, 117, 108, 108>>
    THEN ParseOk(LitV("null"), i + 4)
  ELSE IF i + 4 <= Len(s) /\ SubSeq(s, i, i + 4) = <<102, 97, 108, 115, 101>>
    THEN ParseOk(LitV("false"), i + 5)
  ELSE ParseFail

RECURSIVE ParseValue(_, _)
RECURSIVE ParseMembers(_, _, _)

\* members of an object from position i (just before a key), acc the members so far
ParseMembers(s, i, acc) ==
  LET k0 == SkipWs(s, i) IN
  IF k0 > Len(s) \/ s[k0] # QUOTE THEN ParseFail
  ELSE
    LET key == ParseStringBody(s, k0 + 1) IN
    IF ~key.ok THEN ParseFail
    ELSE
      LET c == SkipWs(s, key.pos) IN
      \* 58 is the colon, 44 the comma
      IF c > Len(s) \/ s[c] # 58 THEN ParseFail
      ELSE
        LET v == ParseValue(s, SkipWs(s, c + 1)) IN
        IF ~v.ok THEN ParseFail
        ELSE
          LET n == SkipWs(s, v.pos)
              acc2 == Append(acc, [k |-> key.val.s, v |-> v.val])
          IN IF n > Len(s) THEN ParseFail
             ELSE IF s[n] = RBRACE THEN ParseOk(ObjV(acc2), n + 1)
             ELSE IF s[n] = 44 THEN ParseMembers(s, n + 1, acc2)
             ELSE ParseFail

ParseValue(s, i) ==
  IF i > Len(s) THEN ParseFail
  ELSE IF s[i] = LBRACE THEN
    LET j == SkipWs(s, i + 1) IN
    IF j <= Len(s) /\ s[j] = RBRACE THEN ParseOk(ObjV(<<>>), j + 1)
    ELSE ParseMembers(s, i + 1, <<>>)
  ELSE IF s[i] = QUOTE THEN ParseStringBody(s, i + 1)
  ELSE IF s[i] = 45 \/ IsDigit(s[i]) THEN ParseNumber(s, i)
  ELSE ParseLiteral(s, i)

\* json.loads(s): [ok, val]; ok is FALSE where json.loads raises ValueError
json_loads(s) ==
  LET r == ParseValue(s, SkipWs(s, 1)) IN
  IF r.ok /\ SkipWs(s, r.pos) = Len(s) + 1
    THEN [ok |-> TRUE, val |-> r.val]
    ELSE [ok |-> FALSE, val |-> NoneV]

\* ------------------------------------------------------------------------
\* _is_complete (ble_provision.py:244-279)
\* ------------------------------------------------------------------------
\* The for-loop of lines 261-278, one character at a time.  The walk state
\* is [depth, in_str, esc, neg]; neg: the loop returned False at line 278.
WalkStart == [depth |-> 0, in_str |-> FALSE, esc |-> FALSE, neg |-> FALSE]

\* the step without the backslash state (lines 262-267 left out)
WalkStep_NoEscape(st, c) ==
  IF c = QUOTE THEN [st EXCEPT !.in_str = ~st.in_str]
  ELSE IF st.in_str THEN st
  ELSE IF c = LBRACE THEN [st EXCEPT !.depth = st.depth + 1]
  ELSE IF c = RBRACE THEN
    IF st.depth - 1 < 0 THEN [st EXCEPT !.neg = TRUE]
    ELSE [st EXCEPT !.depth = st.depth - 1]
  ELSE st

WalkStep(st, c) ==
  IF st.esc THEN [st EXCEPT !.esc = FALSE]
  ELSE IF c = BACKSLASH THEN [st EXCEPT !.esc = TRUE]
  ELSE IF c = QUOTE THEN [st EXCEPT !.in_str = ~st.in_str]
  ELSE IF st.in_str THEN st
  ELSE IF c = LBRACE THEN [st EXCEPT !.depth = st.depth + 1]
  ELSE IF c = RBRACE THEN
    IF st.depth - 1 < 0 THEN [st EXCEPT !.neg = TRUE]
    ELSE [st EXCEPT !.depth = st.depth - 1]
  ELSE st

\* the loop over s[lo..hi] from state st, by halves; it stops at the return
\* of line 278
RECURSIVE WalkRange(_, _, _, _)
WalkRange(s, lo, hi, st) ==
  IF lo > hi \/ st.neg THEN st
  ELSE IF lo = hi THEN WalkStep(st, s[lo])
  ELSE LET mid == (lo + hi) \div 2
       IN WalkRange(s, mid + 1, hi, WalkRange(s, lo, mid, st))

\* lines 258-279: what the method returns for the text s it walks
BraceWalk(s) ==
  LET st == WalkRange(s, 1, Len(s), WalkStart)
  IN ~st.neg /\ st.depth = 0

\* lines 249-255: [failed, s]: the text the walk runs on, or the early return
Unwrap(s) ==
  IF s[1] = QUOTE /\ s[Len(s)] = QUOTE THEN
    LET inner == json_loads(s) IN
    IF ~inner.ok THEN [failed |-> TRUE, s |-> s]
    ELSE IF inner.val.t = "str" THEN [failed |-> FALSE, s |-> strip(inner.val.s)]
    ELSE [failed |-> FALSE, s |-> s]
  ELSE [failed |-> FALSE, s |-> s]

_is_complete(txt) ==
  LET s == strip(txt) IN
  IF s = <<>> THEN FALSE
  ELSE
    LET u == Unwrap(s) IN
    IF u.failed THEN FALSE
    ELSE IF ~(u.s # <<>> /\ u.s[1] = LBRACE /\ u.s[Len(u.s)] = RBRACE) THEN FALSE
    ELSE BraceWalk(u.s)

\* ------------------------------------------------------------------------
\* Fragment accumulation (ble_provision.py:211-241).  A buffer state is
\* [buf, last]: _rx_buf and _last_frag_ms.
\* ------------------------------------------------------------------------
\* _reset_buffer at clock value t
_reset_buffer(t) == [buf |-> <<>>, last |-> t]

\* line 220: a previous timestamp exists and is more than the timeout old
IsStale(t, last) == last # 0 /\ ticks_diff(t, last) > _FRAGMENT_TIMEOUT_MS

\* lines 223-228: the first byte of frag that is not space, tab, LF or CR;
\* -1 stands for None
RECURSIVE FirstNonWs(_)
FirstNonWs(frag) ==
  IF frag = <<>> THEN -1
  ELSE IF Head(frag) \in {32, 9, 10, 13} THEN FirstNonWs(Tail(frag))
  ELSE Head(frag)

\* lines 232-240: append with the size cap; [buf, trunc], trunc telling whether
\* the else-branch (the truncating one) ran
CapAppend_KeepHead(buf, frag) ==
  LET needed == Len(buf) + Len(frag) IN
  IF needed <= _MAX_RX THEN [buf |-> buf \o frag, trunc |-> FALSE]
  ELSE [buf |-> SubSeq(buf \o frag, 1, _MAX_RX), trunc |-> TRUE]

CapAppend(buf, frag) ==
  LET needed == Len(buf) + Len(frag) IN
  IF needed <= _MAX_RX THEN [buf |-> buf \o frag, trunc |-> FALSE]
  ELSE
    LET keep == Max(0, _MAX_RX - Len(frag)) IN
    IF keep # 0
      THEN [buf |-> LastN(buf, keep) \o frag, trunc |-> TRUE]
      ELSE [buf |-> LastN(frag, _MAX_RX), trunc |-> TRUE]

\* lines 222-230 with a scan that looks at the first byte only
StartsObject_NoSkip(frag) == frag # <<>> /\ Head(frag) = LBRACE

\* line 229
StartsObject(frag) == FirstNonWs(frag) = LBRACE

\* _append_fragment(frag) called at clock value t on buffer state [buf, last]:
\* [buf, last, trunc]
_append_fragment(buf, last, frag, t) ==
  IF frag = <<>> THEN [buf |-> buf, last |-> last, trunc |-> FALSE]
  ELSE
    LET s1 == IF IsStale(t, last) THEN _reset_buffer(t) ELSE [buf |-> buf, last |-> last]
        s2 == IF StartsObject(frag) THEN _reset_buffer(t) ELSE s1
        r == CapAppend(s2.buf, frag)
    IN [buf |-> r.buf, last |-> t, trunc |-> r.trunc]

\* ------------------------------------------------------------------------
\* Strings and payloads of the code, as code points
\* ------------------------------------------------------------------------
\* device_id
S_device_id ==
  <<100, 101, 118, 105, 99, 101, 95, 105, 100>>

\* ssid
S_ssid ==
  <<115, 115, 105, 100>>

\* publicKey
S_publicKey ==
  <<112, 117, 98, 108, 105, 99, 75, 101, 121>>

\* secretKey
S_secretKey ==
  <<115, 101, 99, 114, 101, 116, 75, 101, 121>>

\* key_pair
S_key_pair ==
  <<107, 101, 121, 95, 112, 97, 105, 114>>

\* wifi_password
S_wifi_password ==
  <<119, 105, 102, 105, 95, 112, 97, 115, 115, 119, 111, 114, 100>>

\* password
S_password ==
  <<112, 97, 115, 115, 119, 111, 114, 100>>

\* network_id
S_network_id ==
  <<110, 101, 116, 119, 111, 114, 107, 95, 105, 100>>

\* mainnet01
S_mainnet01 ==
  <<109, 97, 105, 110, 110, 101, 116, 48, 49>>

\* None
S_None ==
  <<78, 111, 110, 101>>

\* True
S_True ==
  <<84, 114, 117, 101>>

\* False
S_False ==
  <<70, 97, 108, 115, 101>>

\* {"status":"ready"}
_STATUS_READY ==
  <<123, 34, 115, 116, 97, 116, 117, 115, 34, 58, 34, 114, 101, 97, 100,
     121, 34, 125>>

\* {"status":"saved"}
_STATUS_SAVED ==
  <<123, 34, 115, 116, 97, 116, 117, 115, 34, 58, 34, 115, 97, 118, 101,
     100, 34, 125>>

\* {"status":"error","msg":"bad_json"}
_ERROR_BAD_JSON ==
  <<123, 34, 115, 116, 97, 116, 117, 115, 34, 58, 34, 101, 114, 114, 111,
     114, 34, 44, 34, 109, 115, 103, 34, 58, 34, 98, 97, 100, 95, 106, 115,
     111, 110, 34, 125>>

\* {"status":"error","msg":"save_failed"}
_ERROR_SAVE_FAIL ==
  <<123, 34, 115, 116, 97, 116, 117, 115, 34, 58, 34, 101, 114, 114, 111,
     114, 34, 44, 34, 109, 115, 103, 34, 58, 34, 115, 97, 118, 101, 95, 102,
     97, 105, 108, 101, 100, 34, 125>>

\* {"status":"error","msg":"missing:
MissingHead ==
  <<123, 34, 115, 116, 97, 116, 117, 115, 34, 58, 34, 101, 114, 114, 111,
     114, 34, 44, 34, 109, 115, 103, 34, 58, 34, 109, 105, 115, 115, 105,
     110, 103, 58>>

\* "}
MissingTail ==
  <<34, 125>>

\* {"event": "data", "data": 
EnvelopeHead ==
  <<123, 34, 101, 118, 101, 110, 116, 34, 58, 32, 34, 100, 97, 116, 97, 34,
     44, 32, 34, 100, 97, 116, 97, 34, 58, 32>>

\* }
EnvelopeTail ==
  <<125>>

\* ------------------------------------------------------------------------
\* Python values: dict.get, truth, str()
\* ------------------------------------------------------------------------
\* d.get(key): the value of the last member named key, None when there is none
Get(d, key) ==
  LET at == {i \in 1..Len(d.kv) : d.kv[i].k = key} IN
  IF at = {} THEN NoneV
  ELSE d.kv[CHOOSE i \in at : \A j \in at : j <= i].v

\* d.get(key, default)
GetDefault(d, key, default) ==
  IF \E i \in 1..Len(d.kv) : d.kv[i].k = key THEN Get(d, key) ELSE default

\* bool(v): None, False, 0, "" and {} are false
Truthy(v) ==
  CASE v.t = "str" -> v.s # <<>>
    [] v.t = "num" -> \E i \in 1..Len(v.s) : v.s[i] \in 49..57
    [] v.t = "obj" -> v.kv # <<>>
    [] v.t = "true" -> TRUE
    [] OTHER -> FALSE

\* repr() of a value inside a dict (strings of the model hold no quote,
\* backslash or control character, objects no duplicate key)
RECURSIVE Repr(_)
RECURSIVE ReprMembers(_, _)
ReprMembers(kv, i) ==
  IF i > Len(kv) THEN <<>>
  ELSE (IF i > 1 THEN <<44, 32>> ELSE <<>>)
       \o <<39>> \o kv[i].k \o <<39, 58, 32>> \o Repr(kv[i].v)
       \o ReprMembers(kv, i + 1)

Repr(v) ==
  CASE v.t = "str" -> <<39>> \o v.s \o <<39>>
    [] v.t = "num" -> IF Truthy(v) THEN v.s ELSE <<48>>
    [] v.t = "obj" -> <<LBRACE>> \o ReprMembers(v.kv, 1) \o <<RBRACE>>
    [] v.t = "true" -> S_True
    [] v.t = "false" -> S_False
    [] OTHER -> S_None

\* str(v)
py_str(v) == IF v.t = "str" THEN v.s ELSE Repr(v)

\* s[:n]
FirstN(s, n) == IF Len(s) <= n THEN s ELSE SubSeq(s, 1, n)

\* ------------------------------------------------------------------------
\* _process_device_config, lines 306-327
\* ------------------------------------------------------------------------
\* cfg.get(key) or (cfg.get("key_pair") or {}).get(key): [raises, val];
\* raises when key_pair is a true value that is no dict (AttributeError)
KeyLookup(cfg, key) ==
  LET a == Get(cfg, key) IN
  IF Truthy(a) THEN [raises |-> FALSE, val |-> a]
  ELSE
    LET kp0 == Get(cfg, S_key_pair)
        kp == IF Truthy(kp0) THEN kp0 ELSE ObjV(<<>>)
    IN IF kp.t # "obj" THEN [raises |-> TRUE, val |-> NoneV]
       ELSE [raises |-> FALSE, val |-> Get(kp, key)]

\* lines 309-312: the names of the missing fields, in the order tested
MissingFields(cfg, pub) ==
  (IF ~Truthy(Get(cfg, S_device_id)) THEN <<S_device_id>> ELSE <<>>)
  \o (IF ~Truthy(Get(cfg, S_ssid)) THEN <<S_ssid>> ELSE <<>>)
  \o (IF ~Truthy(pub) THEN <<S_publicKey>> ELSE <<>>)

\* the record without the fall back to the field password of line 321
FinalRecord_NoPasswordField(cfg, pub, sec) ==
  [ device_id |-> FirstN(py_str(Get(cfg, S_device_id)), 64),
    ssid |-> FirstN(py_str(Get(cfg, S_ssid)), 32),
    wifi_password |->
      FirstN(py_str(IF Truthy(Get(cfg, S_wifi_password))
                      THEN Get(cfg, S_wifi_password)
                      ELSE StrV(<<>>)), 64),
    network_id |-> FirstN(py_str(GetDefault(cfg, S_network_id, StrV(S_mainnet01))), 32),
    publicKey |-> FirstN(py_str(pub), 128),
    secretKey |-> FirstN(py_str(IF Truthy(sec) THEN sec ELSE StrV(<<>>)), 128) ]

\* lines 318-327: the record handed to save_config
FinalRecord(cfg, pub, sec) ==
  [ device_id |-> FirstN(py_str(Get(cfg, S_device_id)), 64),
    ssid |-> FirstN(py_str(Get(cfg, S_ssid)), 32),
    wifi_password |->
      FirstN(py_str(IF Truthy(Get(cfg, S_wifi_password))
                      THEN Get(cfg, S_wifi_password)
                      ELSE GetDefault(cfg, S_password, StrV(<<>>))), 64),
    network_id |-> FirstN(py_str(GetDefault(cfg, S_network_id, StrV(S_mainnet01))), 32),
    publicKey |-> FirstN(py_str(pub), 128),
    secretKey |-> FirstN(py_str(IF Truthy(sec) THEN sec ELSE StrV(<<>>)), 128) ]

NoRecord ==
  [ device_id |-> <<>>, ssid |-> <<>>, wifi_password |-> <<>>,
    network_id |-> <<>>, publicKey |-> <<>>, secretKey |-> <<>> ]

\* ",".join(names)
RECURSIVE JoinComma(_)
JoinComma(names) ==
  IF names = <<>> THEN <<>>
  ELSE IF Len(names) = 1 THEN names[1]
  ELSE names[1] \o <<44>> \o JoinComma(Tail(names))

\* json.dumps of a str: quoted, with quote and backslash escaped
EscapeAt(c) == IF c \in {QUOTE, BACKSLASH} THEN <<BACKSLASH, c>> ELSE <<c>>

RECURSIVE EscapeRange(_, _, _)
EscapeRange(s, lo, hi) ==
  IF lo > hi THEN <<>>
  ELSE IF lo = hi THEN EscapeAt(s[lo])
  ELSE LET mid == (lo + hi) \div 2
       IN EscapeRange(s, lo, mid) \o EscapeRange(s, mid + 1, hi)

JsonEscape(s) == EscapeRange(s, 1, Len(s))

\* line 188: json.dumps({"event": evt, "data": obj}) for evt = "data", obj a str
EnvelopeOf(obj) == EnvelopeHead \o <<QUOTE>> \o JsonEscape(obj) \o <<QUOTE>> \o EnvelopeTail

\* line 314: the argument of _notify_json_str
MissingStatus(names) == MissingHead \o JoinComma(names) \o MissingTail

\* str.encode('utf-8') of a text of code points below 0x800
RECURSIVE Utf8Encode(_)
Utf8Encode(t) ==
  IF t = <<>> THEN <<>>
  ELSE IF Len(t) = 1 THEN
    (IF t[1] < 128 THEN <<t[1]>>
     ELSE <<192 + (t[1] \div 64), 128 + (t[1] % 64)>>)
  ELSE Utf8Encode(SubSeq(t, 1, Len(t) \div 2))
       \o Utf8Encode(SubSeq(t, Len(t) \div 2 + 1, Len(t)))

\* data[a : b] for 0 <= a <= b
Slice(data, a, b) ==
  SubSeq(data, a + 1, IF b < Len(data) THEN b ELSE Len(data))

\* the loop going on with the next piece after a call that raised
RECURSIVE NotifyLoop_SkipsFailed(_, _, _, _, _)
NotifyLoop_SkipsFailed(data, step, offset, sent, fail_at) ==
  IF offset >= Len(data)
    THEN [chunks |-> <<>>, calls |-> <<>>, ret |-> TRUE, raised |-> FALSE,
          dt |-> 0]
  ELSE
    LET rest == NotifyLoop_SkipsFailed(data, step, offset + step, sent + 1,
                                       fail_at)
        piece == Slice(data, offset, offset + step)
    IN [chunks |-> IF sent + 1 = fail_at THEN rest.chunks
                   ELSE <<piece>> \o rest.chunks,
        calls |-> <<piece>> \o rest.calls,
        ret |-> rest.ret /\ sent + 1 # fail_at, raised |-> FALSE,
        dt |-> rest.dt]

\* lines 168-182, the loop from offset on when `sent` chunks are sent, with
\* chunks of `step` bytes; fail_at is the gatts_notify call that raises
\* (0: none does): [chunks, calls, ret, raised, dt], chunks the pieces the
\* transport took and calls the arguments of every gatts_notify call.  The
\* call is the only statement of the loop that can raise and line 175
\* catches every Exception, so nothing is raised to the caller.
RECURSIVE NotifyLoop(_, _, _, _, _)
NotifyLoop(data, step, offset, sent, fail_at) ==
  IF offset >= Len(data)
    THEN [chunks |-> <<>>, calls |-> <<>>, ret |-> TRUE, raised |-> FALSE,
          dt |-> 0]
  ELSE IF sent + 1 = fail_at
    THEN [chunks |-> <<>>, calls |-> <<Slice(data, offset, offset + step)>>,
          ret |-> FALSE, raised |-> FALSE, dt |-> 0]
  ELSE
    LET pause == IF offset + step < Len(data) /\ (sent + 1) % 3 = 0
                   THEN 20 ELSE 0
        rest == NotifyLoop(data, step, offset + step, sent + 1, fail_at)
    IN [chunks |-> <<Slice(data, offset, offset + step)>> \o rest.chunks,
        calls |-> <<Slice(data, offset, offset + step)>> \o rest.calls,
        ret |-> rest.ret, raised |-> FALSE, dt |-> pause + rest.dt]

\* _notify_bytes with chunks of the whole MTU
_notify_bytes_WholeMtu(data, mtu, fail_at) ==
  NotifyLoop(IF data.str THEN Utf8Encode(data.v) ELSE data.v,
             Max(20, mtu), 0, 0, fail_at)

\* lines 163-185: _notify_bytes(data) when self._mtu_size is mtu; data is
\* [str, v], a str of code points v or bytes v
_notify_bytes(data, mtu, fail_at) ==
  NotifyLoop(IF data.str THEN Utf8Encode(data.v) ELSE data.v,
             Max(20, mtu - 3), 0, 0, fail_at)

\* lines 167-182: the pacing sleeps of a notification of size bytes that is
\* sent whole: 20 ms after every third chunk that is not the last
PacingMs(size, mtu) ==
  LET step == Max(20, mtu - 3)
      chunks == (size + step - 1) \div step
  IN IF chunks = 0 THEN 0 ELSE 20 * ((chunks - 1) \div 3)

\* ------------------------------------------------------------------------
\* save_config (config.py:14-29).  The stored file is [st, rec]: st is
\* "absent", "old" (a record of an earlier provisioning), "partial" (created
\* or truncated by open(path, 'w'), the dump not finished) or "new" (rec
\* written whole).
\* ------------------------------------------------------------------------
SaveOutcomes == {"ok", "open_fails", "dump_fails", "sync_fails"}

FileAbsent == [st |-> "absent", rec |-> NoRecord]
FileOld == [st |-> "old", rec |-> NoRecord]

\* the file after save_config(final) where out says which statement raised:
\* open (line 15), json.dump (line 16), os.sync (line 20), or none
save_config(before, final, out) ==
  CASE out = "open_fails" -> before
    [] out = "dump_fails" -> [st |-> "partial", rec |-> NoRecord]
    [] OTHER -> [st |-> "new", rec |-> final]

\* save_config raised
SaveRaises(out) == out # "ok"

\* ------------------------------------------------------------------------
\* What a write event that completes a message does (lines 282-364).
\* An outcome is [result, tx, dt, file, saved, clear, reboot, tried, called]:
\*   result  "bad_json", "raised", "missing", "save_failed" or "saved"
\*   tx      the payloads notified, in order
\*   dt      ms slept (notification pacing, lines 338 and 343)
\*   file    the stored file afterwards
\*   saved   self._saved was set
\*   clear   _reset_buffer ran last
\*   reboot  the device restarted inside the call
\*   tried   save_config was called
\*   called  reset() was called (lines 346-357)
\* ------------------------------------------------------------------------
\* lines 329-364 with the reset before the notification of line 335
SaveAndReport_ResetFirst(final, mtu, auto_reset, resets, file0, out) ==
  IF SaveRaises(out) THEN
    [result |-> "save_failed", tx |-> <<_ERROR_SAVE_FAIL>>,
     dt |-> PacingMs(Len(_ERROR_SAVE_FAIL), mtu),
     file |-> save_config(file0, final, out), saved |-> FALSE,
     clear |-> TRUE, reboot |-> FALSE, tried |-> TRUE, called |-> FALSE]
  ELSE
    [result |-> "saved",
     tx |-> IF auto_reset /\ resets THEN <<>> ELSE <<_STATUS_SAVED>>,
     dt |-> PacingMs(Len(_STATUS_SAVED), mtu) + 800 + (IF auto_reset THEN 200 ELSE 0),
     file |-> save_config(file0, final, out), saved |-> TRUE,
     clear |-> ~(auto_reset /\ resets), reboot |-> auto_reset /\ resets,
     tried |-> TRUE, called |-> auto_reset]

\* lines 329-364, for the record final; out is what save_config does,
\* resets whether reset() restarts the device (platform_compat.py:221-229)
SaveAndReport(final, mtu, auto_reset, resets, file0, out) ==
  IF SaveRaises(out) THEN
    [result |-> "save_failed", tx |-> <<_ERROR_SAVE_FAIL>>,
     dt |-> PacingMs(Len(_ERROR_SAVE_FAIL), mtu),
     file |-> save_config(file0, final, out), saved |-> FALSE,
     clear |-> TRUE, reboot |-> FALSE, tried |-> TRUE, called |-> FALSE]
  ELSE
    [result |-> "saved", tx |-> <<_STATUS_SAVED>>,
     dt |-> PacingMs(Len(_STATUS_SAVED), mtu) + 800 + (IF auto_reset THEN 200 ELSE 0),
     file |-> save_config(file0, final, out), saved |-> TRUE,
     clear |-> ~(auto_reset /\ resets), reboot |-> auto_reset /\ resets,
     tried |-> TRUE, called |-> auto_reset]

_process_device_config(cfg, mtu, auto_reset, resets, file0, out) ==
  LET pub == KeyLookup(cfg, S_publicKey)
      sec == KeyLookup(cfg, S_secretKey)
  IN IF pub.raises \/ sec.raises THEN
       [result |-> "raised", tx |-> <<>>, dt |-> 0, file |-> file0,
        saved |-> FALSE, clear |-> FALSE, reboot |-> FALSE, tried |-> FALSE,
        called |-> FALSE]
     ELSE
       LET missing == MissingFields(cfg, pub.val) IN
       IF missing # <<>> THEN
         LET p == EnvelopeOf(MissingStatus(missing)) IN
         [result |-> "missing", tx |-> <<p>>, dt |-> PacingMs(Len(p), mtu),
          file |-> file0, saved |-> FALSE, clear |-> TRUE, reboot |-> FALSE,
          tried |-> FALSE, called |-> FALSE]
       ELSE
         SaveAndReport(FinalRecord(cfg, pub.val, sec.val), mtu, auto_reset,
                       resets, file0, out)

\* _process_config without the _reset_buffer of line 298
_process_config_KeepsBadJson(raw_txt, mtu, auto_reset, resets, file0, out) ==
  LET s0 == strip(raw_txt)
      quoted == s0 # <<>> /\ s0[1] = QUOTE /\ s0[Len(s0)] = QUOTE
      unq == IF quoted THEN json_loads(s0) ELSE ParseFail
      s == IF unq.ok /\ unq.val.t = "str" THEN unq.val.s ELSE s0
      cfg == json_loads(s)
  IN IF ~cfg.ok \/ cfg.val.t # "obj" THEN
       [result |-> "bad_json", tx |-> <<_ERROR_BAD_JSON>>,
        dt |-> PacingMs(Len(_ERROR_BAD_JSON), mtu), file |-> file0,
        saved |-> FALSE, clear |-> FALSE, reboot |-> FALSE, tried |-> FALSE,
        called |-> FALSE]
     ELSE _process_device_config(cfg.val, mtu, auto_reset, resets, file0, out)

\* lines 283-302
_process_config(raw_txt, mtu, auto_reset, resets, file0, out) ==
  LET s0 == strip(raw_txt)
      quoted == s0 # <<>> /\ s0[1] = QUOTE /\ s0[Len(s0)] = QUOTE
      unq == IF quoted THEN json_loads(s0) ELSE ParseFail
      s == IF unq.ok /\ unq.val.t = "str" THEN unq.val.s ELSE s0
      cfg == json_loads(s)
  IN IF ~cfg.ok \/ cfg.val.t # "obj" THEN
       [result |-> "bad_json", tx |-> <<_ERROR_BAD_JSON>>,
        dt |-> PacingMs(Len(_ERROR_BAD_JSON), mtu), file |-> file0,
        saved |-> FALSE, clear |-> TRUE, reboot |-> FALSE, tried |-> FALSE,
        called |-> FALSE]
     ELSE _process_device_config(cfg.val, mtu, auto_reset, resets, file0, out)

\* ------------------------------------------------------------------------
\* _start_advertising (lines 442-484) on a radio that rejects the first
\* adv_fail attempts: [ok, radio, dt]
\* ------------------------------------------------------------------------
\* the payload-less attempt made before the one at 100 ms
_start_advertising_MinimalFirst(fast, adv_fail) ==
  [ok |-> adv_fail < 3,
   radio |-> CASE adv_fail = 0 -> (IF fast THEN "fast" ELSE "slow")
               [] adv_fail = 1 -> "minimal"
               [] adv_fail = 2 -> "100ms"
               [] OTHER -> "off",
   dt |-> 50]

_start_advertising(fast, adv_fail) ==
  [ok |-> adv_fail < 3,
   radio |-> CASE adv_fail = 0 -> (IF fast THEN "fast" ELSE "slow")
               [] adv_fail = 1 -> "100ms"
               [] adv_fail = 2 -> "minimal"
               [] OTHER -> "off",
   dt |-> 50]

\* ------------------------------------------------------------------------
\* __init__ line 72
\* ------------------------------------------------------------------------
Min(a, b) == IF a <= b THEN a ELSE b

\* the clamp without its lower limit
ClampTimeout_NoFloor(t) == Min(t, 600)

ClampTimeout(t) == Max(30, Min(t, 600))

\* ------------------------------------------------------------------------
\* Bounds of the model
\* ------------------------------------------------------------------------
\* calls of the framer in one run of SpecFramer
MaxOps == 3

\* the timeouts passed to the constructor in SpecClamp go from
\* -MaxBelowZero to MaxTimeoutArg
MaxBelowZero == 10
MaxTimeoutArg == 650
\* length of the texts the detector is applied to in SpecDetect
MaxTextLen == 5
\* connect events in one session
MaxConnects == 2
\* runs of fewer than LongRun supervisor iterations in one session
MaxShortSleeps == 1
\* write events in one session
MaxWrites == 3

\* centrals connected at one time
MaxLinks == 2

\* ------------------------------------------------------------------------
\* State
\* ------------------------------------------------------------------------
VARIABLES
  now,            \* the clock: what time.ticks_ms() returns
  rx_buf,         \* self._rx_buf
  last_frag_ms,   \* self._last_frag_ms
  setup,          \* the caller's arguments and the platform (fixed in a run)
  timeout_s,      \* self.timeout_s
  mtu_size,       \* self._mtu_size
  conn,           \* self._conn (NoConn: None)
  connected,      \* self._connected
  saved,          \* self._saved
  advertising,    \* self._advertising
  last_ping,      \* self._last_ping
  connection_attempts, \* self._connection_attempts
  pc,             \* where start() is: "new", "loop", "exit", "cl_adv",
                  \* "cl_conn", "cl_off", "done"; "reset": the device restarted;
                  \* "args": the constructor has not run yet
  ret,            \* what start() returned (at pc = "done")
  start_ms,       \* start()'s start_ms
  last_adv_check, \* start()'s last_adv_check
  fast_adv_until, \* start()'s fast_adv_until
  link,           \* how many centrals are connected to the radio
  radio_adv,      \* what the radio advertises: "off", "fast", "slow",
                  \* "100ms", "minimal"
  ble_active,     \* the BLE stack is active and delivers events
  file,           \* the stored configuration file
  tx_log,         \* the notifications the last event handler sent
  peer,           \* the message the central is sending and how far it got
  short_used,     \* short iterations so far (bounded by MaxShortSleeps)
  txt,            \* the text handed to _is_complete
  complete_res,   \* what _is_complete returned for txt ("none": not called)
  n_ops,          \* calls made so far (bounded by MaxOps)
  boot,           \* CyberflyClient.boot(): what it finds (in) and what it
                  \* did (out), NoBoot outside SpecBoot
  call,           \* one call of a function on its own: [fn, in, done, out],
                  \* NoCall outside SpecRecord and SpecNotify
  h_op,           \* the last framer call: "none", "append", "empty", "reset"
  h_pre,          \* _rx_buf before the last _append_fragment call
  h_frag,         \* the fragment of the last _append_fragment call
  h_trunc,        \* whether that call took the truncating branch
  h_since,        \* ms elapsed since the last non-empty append, -1 when a
                  \* reset came after it or there was none (capped)
  h_gap,          \* h_since as the last non-empty append found it
  h_result,       \* how the last write event ended: "none", "ignored",
                  \* "incomplete", "bad_json", "raised", "missing",
                  \* "save_failed", "saved"
  h_ptxt,         \* the text the last write event handed to _process_config
  h_save,         \* the outcome of save_config in the last write event
  h_file,         \* the file before the last write event
  h_saved,        \* self._saved before the last write event
  h_resets,       \* how often reset() was called: by _process_device_config
                  \* (lines 346-357) and by start() (line 637)
  h_epoch,        \* [oldest, kept]: the connection (its number) in which the
                  \* oldest byte was received that the buffer held after the
                  \* last append (0: emptied by a connect or disconnect
                  \* event since), and whether the buffer held bytes when
                  \* the latest connect event came
  h_exit          \* why the supervisor loop ended: "none", "saved", "timeout"

bufVars == <<rx_buf, last_frag_ms>>
objVars == <<setup, timeout_s, mtu_size, conn, connected, saved, advertising,
             last_ping, connection_attempts>>
startVars == <<pc, ret, start_ms, last_adv_check, fast_adv_until>>
envVars == <<link, radio_adv, ble_active, file, tx_log, peer, short_used>>
unitVars == <<txt, complete_res, n_ops, boot, call>>
framerHist == <<h_op, h_pre, h_frag, h_trunc, h_since, h_gap>>
sessHist == <<h_result, h_ptxt, h_save, h_file, h_saved, h_epoch, h_exit,
              h_resets>>

vars == <<now, bufVars, objVars, startVars, envVars, unitVars, framerHist, sessHist>>

NoConn == -1

\* what boot() finds when nothing is stored and no button is wired
NoBootInput ==
  [readable |-> FALSE, d |-> "absent", s |-> "absent", k |-> "absent",
   has_machine |-> FALSE, pin_given |-> FALSE, sig |-> [down |-> 0, up |-> 0],
   long_ms |-> 3000, slip |-> 0, ble |-> FALSE, prov |-> FALSE]

\* no client constructed
NoClient == [device_id |-> LitV("null"), ssid |-> LitV("null"), key_pair |-> LitV("null")]

NoBootOutcome ==
  [valid |-> FALSE, trigger |-> FALSE, provisioned |-> FALSE,
   result |-> "none", client |-> NoClient]

\* boot() is not part of the run
NoBoot == [in |-> NoBootInput, done |-> FALSE, out |-> NoBootOutcome]

\* no function is called on its own
NoCall == [fn |-> "none", in |-> <<>>, done |-> FALSE, out |-> <<>>]

NoPeer == [msg |-> 0, idx |-> 0, intime |-> TRUE, at |-> 0, pre |-> <<>>, pregap |-> -1]

\* h_since after dt more ms; everything above the fragment timeout is alike
SinceCap == _FRAGMENT_TIMEOUT_MS + 1
Elapsed(h, dt) == IF h < 0 THEN -1 ELSE Min(h + dt, SinceCap)

\* the fields __init__ sets (lines 70-96), for setup s
Constructed(s) ==
  /\ setup = s
  /\ timeout_s = ClampTimeout(s.timeout_arg)
  /\ mtu_size = 23
  /\ conn = NoConn
  /\ connected = FALSE
  /\ saved = FALSE
  /\ advertising = FALSE
  /\ last_ping = 0
  /\ connection_attempts = 0
  /\ rx_buf = <<>>
  /\ last_frag_ms = 0

\* start() not yet called, nothing on the air
Idle ==
  /\ pc = "new" /\ ret = FALSE
  /\ start_ms = 0 /\ last_adv_check = 0 /\ fast_adv_until = 0
  /\ link = 0 /\ radio_adv = "off" /\ ble_active = FALSE
  /\ tx_log = <<>> /\ peer = NoPeer /\ short_used = 0

\* Before any event: no byte in the buffer, and none at a connect event.
NoEpoch == [oldest |-> 0, kept |-> FALSE]

\* The connection in which the oldest byte of the buffer was received, after
\* _append_fragment made `after` of buffer `before` (whose oldest byte was
\* received in connection `was`) and fragment frag during connection cur.
\* The fragment is the tail of the result (lines 232-240 cut at the front):
\* what the result holds beyond the fragment's length is bytes of `before`.
OldestEpoch(before, was, frag, after, cur) ==
  IF after = <<>> THEN 0
  ELSE IF before # <<>> /\ Len(after) > Len(frag) THEN was
  ELSE cur

NoHistory ==
  /\ txt = <<>> /\ complete_res = "none" /\ n_ops = 0
  /\ h_op = "none" /\ h_pre = <<>> /\ h_frag = <<>> /\ h_trunc = FALSE
  /\ h_since = -1 /\ h_gap = -1
  /\ h_result = "none" /\ h_ptxt = <<>> /\ h_save = "none"
  /\ h_file = FileAbsent /\ h_saved = FALSE /\ h_exit = "none"
  /\ h_epoch = NoEpoch /\ h_resets = 0

\* A setup is what is fixed in a run: provision()'s arguments (timeout_arg,
\* auto_reset), the platform (bt: the bluetooth module is there; mtu: the
\* largest MTU the stack accepts; adv_fail: how many of the three advertising
\* attempts the radio rejects; reset: whether reset() "resets" the device or
\* "returns") and the central (handles: the connection handles it may be
\* given; msgs: the messages it may send; iters: how many supervisor passes
\* it may let go by between two events; sleeps: how often it may let go by
\* fewer than LongRun passes).  On a flaky platform adv_fail changes during
\* the run.
\* provision()'s defaults on a board where everything works
DefaultSetup ==
  [timeout_arg |-> 180, auto_reset |-> TRUE, bt |-> TRUE, mtu |-> 512,
   adv_fail |-> 0, reset |-> "resets", handles |-> {}, msgs |-> {},
   iters |-> {}, sleeps |-> MaxShortSleeps, flaky |-> FALSE]

\* ------------------------------------------------------------------------
\* SpecFramer: _append_fragment and _reset_buffer called in any order at
\* any times
\* ------------------------------------------------------------------------
\* n bytes repeating with period 7, so that any two windows of it differ
Pad(n, base) == [i \in 1..n |-> base + (i % 7)]

FramerFrags ==
  { <<>>,
    <<97, 98>>,                          \* ab
    <<LBRACE, QUOTE, 97>>,               \* {"a
    <<32, 9, 10, 13, LBRACE, 120>>,      \* space tab LF CR {x
    <<32, 32>>,                          \* whitespace only
    <<120, LBRACE>>,                     \* x{
    Pad(200, 65),
    <<LBRACE>> \o Pad(_MAX_RX, 75),      \* { and 384 more bytes
    Pad(_MAX_RX + 16, 85) }

FramerGaps == {0, _FRAGMENT_TIMEOUT_MS, _FRAGMENT_TIMEOUT_MS + 1}

StartTicks == {0, TICKS_PERIOD - (_FRAGMENT_TIMEOUT_MS + 1)}

InitFramer ==
  /\ now \in StartTicks
  /\ Constructed(DefaultSetup)
  /\ file = FileAbsent
  /\ Idle
  /\ NoHistory
  /\ boot = NoBoot /\ call = NoCall

\* d ms pass, then _append_fragment(frag) runs
FramerAppend(d, frag) ==
  /\ n_ops < MaxOps
  /\ LET t == ticks_add(now, d)
         r == _append_fragment(rx_buf, last_frag_ms, frag, t)
         g == Elapsed(h_since, d)
     IN /\ now' = t
        /\ rx_buf' = r.buf
        /\ last_frag_ms' = r.last
        /\ h_op' = IF frag = <<>> THEN "empty" ELSE "append"
        /\ h_pre' = rx_buf
        /\ h_frag' = frag
        /\ h_trunc' = r.trunc
        /\ h_since' = IF frag = <<>> THEN g ELSE 0
        /\ h_gap' = IF frag = <<>> THEN h_gap ELSE g
  /\ n_ops' = n_ops + 1
  /\ UNCHANGED <<txt, boot, call, complete_res, objVars, startVars, envVars, sessHist>>

\* d ms pass, then _reset_buffer() runs
FramerReset(d) ==
  /\ n_ops < MaxOps
  /\ LET t == ticks_add(now, d)
         r == _reset_buffer(t)
     IN /\ now' = t
        /\ rx_buf' = r.buf
        /\ last_frag_ms' = r.last
  /\ h_op' = "reset"
  /\ h_since' = -1
  /\ n_ops' = n_ops + 1
  /\ UNCHANGED <<txt, boot, call, complete_res, h_pre, h_frag, h_trunc, h_gap,
                 objVars, startVars, envVars, sessHist>>

AppendCall == \E d \in FramerGaps, frag \in FramerFrags : FramerAppend(d, frag)
ResetCall == \E d \in FramerGaps : FramerReset(d)

NextFramer == AppendCall \/ ResetCall

SpecFramer == InitFramer /\ [][NextFramer]_vars

\* ------------------------------------------------------------------------
\* SpecDetect: _is_complete applied to every text over DetectAlphabet of
\* length at most MaxTextLen
\* ------------------------------------------------------------------------
DetectAlphabet == {LBRACE, RBRACE, QUOTE, BACKSLASH, 32, 97}

DetectTexts == UNION {[1..n -> DetectAlphabet] : n \in 0..MaxTextLen}

InitDetect ==
  /\ now = 0
  /\ Constructed(DefaultSetup)
  /\ file = FileAbsent
  /\ Idle
  /\ n_ops = 0
  /\ h_op = "none" /\ h_pre = <<>> /\ h_frag = <<>> /\ h_trunc = FALSE
  /\ h_since = -1 /\ h_gap = -1
  /\ h_result = "none" /\ h_ptxt = <<>> /\ h_save = "none"
  /\ h_file = FileAbsent /\ h_saved = FALSE /\ h_exit = "none"
  /\ h_epoch = NoEpoch /\ h_resets = 0
  /\ txt \in DetectTexts
  /\ complete_res = "none"
  /\ boot = NoBoot /\ call = NoCall

CheckComplete ==
  /\ complete_res = "none"
  /\ complete_res' = IF _is_complete(txt) THEN "true" ELSE "false"
  /\ UNCHANGED <<now, bufVars, objVars, startVars, envVars, txt, boot, call,
                 n_ops,
                 framerHist, sessHist>>

NextDetect == CheckComplete

SpecDetect == InitDetect /\ [][NextDetect]_vars

\* ------------------------------------------------------------------------
\* SpecClamp: the constructor called with every timeout from -MaxBelowZero
\* to MaxTimeoutArg
\* ------------------------------------------------------------------------
TimeoutArgs == (0 - MaxBelowZero)..MaxTimeoutArg

\* BleProvisioner(timeout_s = a) is about to be called
InitClamp ==
  /\ now = 0
  /\ \E a \in TimeoutArgs : setup = [DefaultSetup EXCEPT !.timeout_arg = a]
  /\ timeout_s = 0
  /\ mtu_size = 23 /\ conn = NoConn /\ connected = FALSE /\ saved = FALSE
  /\ advertising = FALSE /\ last_ping = 0 /\ connection_attempts = 0
  /\ rx_buf = <<>> /\ last_frag_ms = 0
  /\ file = FileAbsent
  /\ pc = "args" /\ ret = FALSE
  /\ start_ms = 0 /\ last_adv_check = 0 /\ fast_adv_until = 0
  /\ link = 0 /\ radio_adv = "off" /\ ble_active = FALSE
  /\ tx_log = <<>> /\ peer = NoPeer /\ short_used = 0
  /\ NoHistory
  /\ boot = NoBoot /\ call = NoCall

\* __init__, line 72
Construct ==
  /\ pc = "args"
  /\ pc' = "new"
  /\ timeout_s' = ClampTimeout(setup.timeout_arg)
  /\ UNCHANGED <<now, bufVars, setup, mtu_size, conn, connected, saved,
                 advertising, last_ping, connection_attempts, ret, start_ms,
                 last_adv_check, fast_adv_until, envVars, unitVars,
                 framerHist, sessHist>>

NextClamp == Construct

SpecClamp == InitClamp /\ [][NextClamp]_vars

\* ------------------------------------------------------------------------
\* SpecBoot: CyberflyClient.boot() (cyberflySdk.py lines 102-218) run once
\* on every stored configuration, button signal and platform of BootInputs
\* ------------------------------------------------------------------------
\* a string field of the stored configuration: absent, "" or val
Member(st, key, val) ==
  IF st = "absent" THEN <<>>
  ELSE <<[k |-> key, v |-> StrV(IF st = "empty" THEN <<>> ELSE val)]>>

\* the key_pair of the stored configuration: absent, without publicKey,
\* with publicKey "", or with publicKey "p"
KeyPairMember(st) ==
  LET sec == <<[k |-> S_secretKey, v |-> StrV(<<115>>)]>> IN
  CASE st = "absent" -> <<>>
    [] st = "nokey" -> <<[k |-> S_key_pair, v |-> ObjV(sec)]>>
    [] st = "empty" ->
         <<[k |-> S_key_pair,
            v |-> ObjV(<<[k |-> S_publicKey, v |-> StrV(<<>>)]>> \o sec)]>>
    [] OTHER ->
         <<[k |-> S_key_pair,
            v |-> ObjV(<<[k |-> S_publicKey, v |-> StrV(<<112>>)]>> \o sec)]>>

\* config.py lines 6-11: the stored object, or None when the file is absent
\* or cannot be parsed
load_config(in) ==
  IF in.readable
    THEN ObjV(Member(in.d, S_device_id, <<100, 49>>)
              \o Member(in.s, S_ssid, <<110>>) \o KeyPairMember(in.k))
    ELSE NoneV

\* the validity test without its look into key_pair
ConfigValid_NoKeyCheck(cfg) ==
  /\ Truthy(cfg)
  /\ \A f \in {S_device_id, S_ssid, S_key_pair} : Truthy(Get(cfg, f))

\* lines 128-137 (key_pair, when there, is an object in every input here)
ConfigValid(cfg) ==
  /\ Truthy(cfg)
  /\ \A f \in {S_device_id, S_ssid, S_key_pair} : Truthy(Get(cfg, f))
  /\ Truthy(Get(GetDefault(cfg, S_key_pair, ObjV(<<>>)), S_publicKey))

\* btn.value() t ms after boot() began: 0 while the button is down
PinAt(sig, t) == IF sig.down <= t /\ t < sig.up THEN 0 ELSE 1

\* lines 175-186: the hold loop, d ms after t0 (t0 is 160 ms after boot()
\* began: lines 148 and 152-154); slip ms pass between the two readings of
\* the clock in one pass
RECURSIVE HoldLoop(_, _, _, _)
HoldLoop(sig, d, long_ms, slip) ==
  IF d >= long_ms THEN FALSE
  ELSE IF PinAt(sig, 160 + d) = 0
    THEN IF d + slip >= long_ms THEN TRUE
         ELSE HoldLoop(sig, d + slip + 50, long_ms, slip)
  ELSE FALSE

\* lines 143-191: the value of trigger after the button check
ButtonTrigger(in) ==
  IF ~(in.has_machine /\ in.pin_given) THEN FALSE
  ELSE
    LET readings == [i \in 1..3 |-> PinAt(in.sig, 100 + 20 * (i - 1))]
        initial_state == readings[3]
        all_same == \A i \in 1..3 : readings[i] = initial_state
    IN IF ~all_same THEN FALSE
       ELSE IF \A i \in 1..3 : readings[i] = 0 THEN FALSE
       ELSE IF initial_state = 0
         THEN HoldLoop(in.sig, 0, in.long_ms, in.slip)
       ELSE FALSE

\* lines 125-218: what boot() does; result is "saved" (provision returned
\* true), "rebooting" (it returned false, reset is called), "client" (a
\* client is returned) or "raised" (line 211 calls get on None)
BootOutcome(in) ==
  LET cfg == load_config(in)
      valid == ConfigValid(cfg)
      trigger == ButtonTrigger(in)
  IN IF (~valid \/ trigger) /\ in.ble THEN
       [valid |-> valid, trigger |-> trigger, provisioned |-> TRUE,
        result |-> IF in.prov THEN "saved" ELSE "rebooting",
        client |-> NoClient]
     ELSE IF cfg = NoneV THEN
       [valid |-> valid, trigger |-> trigger, provisioned |-> FALSE,
        result |-> "raised", client |-> NoClient]
     ELSE
       [valid |-> valid, trigger |-> trigger, provisioned |-> FALSE,
        result |-> "client",
        client |->
          [device_id |-> GetDefault(cfg, S_device_id, StrV(<<>>)),
           ssid |-> GetDefault(cfg, S_ssid, StrV(<<>>)),
           key_pair |->
             IF Truthy(Get(cfg, S_key_pair)) THEN Get(cfg, S_key_pair)
             ELSE ObjV(<<[k |-> S_publicKey, v |-> StrV(<<>>)],
                         [k |-> S_secretKey, v |-> StrV(<<>>)]>>)]]

\* the button: never pressed; down at boot and released after 130 ms,
\* after 1 s, after 10 s; pressed 110 ms after boot and held
ButtonSignals ==
  {[down |-> 0, up |-> 0], [down |-> 0, up |-> 130], [down |-> 0, up |-> 1000],
   [down |-> 0, up |-> 10000], [down |-> 110, up |-> 10000]}

BootInputs ==
  {in \in [readable : BOOLEAN, d : {"absent", "empty", "set"},
           s : {"absent", "empty", "set"},
           k : {"absent", "nokey", "empty", "set"},
           has_machine : BOOLEAN, pin_given : BOOLEAN, sig : ButtonSignals,
           long_ms : {51, 3000}, slip : {0, 1}, ble : BOOLEAN,
           prov : BOOLEAN] :
     ~in.readable => (in.d = "absent" /\ in.s = "absent" /\ in.k = "absent")}

InitBoot ==
  /\ now = 0
  /\ Constructed(DefaultSetup)
  /\ file = FileAbsent
  /\ Idle
  /\ NoHistory
  /\ \E in \in BootInputs : boot = [in |-> in, done |-> FALSE, out |-> NoBootOutcome]
  /\ call = NoCall

Boot ==
  /\ ~boot.done
  /\ boot' = [boot EXCEPT !.done = TRUE, !.out = BootOutcome(boot.in)]
  /\ UNCHANGED <<now, bufVars, objVars, startVars, envVars, txt,
                 complete_res, n_ops, call, framerHist, sessHist>>

NextBoot == Boot

SpecBoot == InitBoot /\ [][NextBoot]_vars

\* ------------------------------------------------------------------------
\* SpecRecord: _process_device_config (lines 304-364) called once on a
\* parsed message whose fields are JSON strings, present or not, of lengths
\* on both sides of the limits of lines 319-325; save_config succeeds
\* ------------------------------------------------------------------------
\* a field of a message: not there, or there with text s
Absent == [has |-> FALSE, s |-> <<>>]
Present(s) == [has |-> TRUE, s |-> s]

\* the members of a JSON object that has the fields of fs, a sequence of
\* [k, f]
RECURSIVE MembersOf(_)
MembersOf(fs) ==
  IF fs = <<>> THEN <<>>
  ELSE (IF fs[1].f.has THEN <<[k |-> fs[1].k, v |-> StrV(fs[1].f.s)]>> ELSE <<>>)
       \o MembersOf(Tail(fs))

\* the message, parsed, that a description m gives the fields of; kp says
\* whether there is a key_pair object, kpk and ksk what is in it
MessageOf(m) ==
  ObjV(MembersOf(<< [k |-> S_device_id, f |-> m.d], [k |-> S_ssid, f |-> m.s],
                    [k |-> S_wifi_password, f |-> m.w],
                    [k |-> S_password, f |-> m.p],
                    [k |-> S_network_id, f |-> m.n],
                    [k |-> S_publicKey, f |-> m.pk],
                    [k |-> S_secretKey, f |-> m.sk] >>)
       \o (IF m.kp
             THEN << [k |-> S_key_pair,
                      v |-> ObjV(MembersOf(<< [k |-> S_publicKey, f |-> m.kpk],
                                              [k |-> S_secretKey, f |-> m.ksk] >>))] >>
             ELSE <<>>))

RecordInputs ==
  [ d : {Absent, Present(<<>>), Present(<<100>>), Present(Pad(64 + 1, 97))},
    s : {Present(<<>>), Present(<<110>>), Present(Pad(32 + 1, 97))},
    w : {Absent, Present(<<>>), Present(<<119>>), Present(Pad(64 + 1, 97))},
    p : {Absent, Present(<<112>>)},
    n : {Absent, Present(<<>>), Present(Pad(32 + 1, 97))},
    pk : {Absent, Present(<<>>), Present(Pad(128 + 1, 97))},
    sk : {Absent, Present(<<122>>)},
    kp : BOOLEAN,
    kpk : {Absent, Present(<<113>>)},
    ksk : {Absent, Present(Pad(128 + 1, 65))} ]

InitRecord ==
  /\ now = 0
  /\ Constructed(DefaultSetup) /\ file = FileAbsent
  /\ Idle
  /\ NoHistory
  /\ boot = NoBoot
  /\ \E m \in RecordInputs :
       /\ ~m.kp => (m.kpk = Absent /\ m.ksk = Absent)
       /\ call = [fn |-> "_process_device_config", in |-> m, done |-> FALSE,
                  out |-> <<>>]

\* the call, with auto_reset off: [result, rec, notified]
ProcessDeviceConfig ==
  /\ call.fn = "_process_device_config" /\ ~call.done
  /\ \E o \in {_process_device_config(MessageOf(call.in), mtu_size, FALSE,
                                       FALSE, file, "ok")} :
       call' = [call EXCEPT !.done = TRUE,
                            !.out = [result |-> o.result, rec |-> o.file.rec,
                                     notified |-> o.tx]]
  /\ UNCHANGED <<now, bufVars, objVars, startVars, envVars, txt,
                 complete_res, n_ops, boot, framerHist, sessHist>>

NextRecord == ProcessDeviceConfig

SpecRecord == InitRecord /\ [][NextRecord]_vars

\* ------------------------------------------------------------------------
\* SpecNotify: _notify_bytes (lines 163-185) called once, with each value
\* start() gives self._mtu_size (lines 532-540), on bytes and on text
\* ------------------------------------------------------------------------
MaxPayload == 85
MaxFailAt == 4

MtuValues == {23, 180, 512}

\* every length up to MaxPayload, and the lengths about one and two chunks
\* of the larger MTUs (these with the larger MTUs only)
PayloadLens ==
  (0..MaxPayload) \cup {180 - 3, 180 - 2, 2 * (180 - 3) + 1,
                         512 - 3, 512 - 2, 2 * (512 - 3) + 1}

\* n characters, every third one outside ASCII
TextOf(n) == [i \in 1..n |-> IF i % 3 = 0 THEN 233 ELSE 97 + (i % 7)]

\* the first gatts_notify call that raises: without a connection
\* (self._conn is None, line 174) the first one, else the one the transport
\* rejects
FirstRaise(in) == IF in.conn THEN in.fail_at ELSE 1

InitNotify ==
  /\ now = 0
  /\ Constructed(DefaultSetup) /\ file = FileAbsent
  /\ Idle
  /\ NoHistory
  /\ boot = NoBoot
  /\ \E n \in PayloadLens, str \in BOOLEAN, m \in MtuValues,
        c \in BOOLEAN, f \in 0..MaxFailAt :
       /\ n > MaxPayload => m > 23
       /\ ~c => f = 0
       /\ call = [fn |-> "_notify_bytes",
                  in |-> [data |-> [str |-> str,
                                    v |-> IF str THEN TextOf(n) ELSE Pad(n, 48)],
                          mtu |-> m, conn |-> c, fail_at |-> f],
                  done |-> FALSE, out |-> <<>>]

NotifyBytes ==
  /\ call.fn = "_notify_bytes" /\ ~call.done
  /\ call' = [call EXCEPT !.done = TRUE,
                          !.out = _notify_bytes(call.in.data, call.in.mtu,
                                                FirstRaise(call.in))]
  /\ UNCHANGED <<now, bufVars, objVars, startVars, envVars, txt,
                 complete_res, n_ops, boot, framerHist, sessHist>>

NextNotify == NotifyBytes

SpecNotify == InitNotify /\ [][NextNotify]_vars

\* ========================================================================
\* Spec: one provisioning session.  start() runs (lines 487-646) while the
\* BLE stack delivers connect, disconnect and write events to _irq (lines
\* 369-426).  An event handler runs to its end between two statements of
\* start(); the body of one supervisor iteration is taken as one step.
\* ========================================================================
\* ---- what the central sends: messages as sequences of fragments --------
\* {"device_id":"d1","ssid":"net
F_M1a ==
  <<123, 34, 100, 101, 118, 105, 99, 101, 95, 105, 100, 34, 58, 34, 100, 49,
     34, 44, 34, 115, 115, 105, 100, 34, 58, 34, 110, 101, 116>>

\* work","publicKey":"pub
F_M1b ==
  <<119, 111, 114, 107, 34, 44, 34, 112, 117, 98, 108, 105, 99, 75, 101,
     121, 34, 58, 34, 112, 117, 98>>

\* Key123"}
F_M1c ==
  <<75, 101, 121, 49, 50, 51, 34, 125>>

\* {"device_id":"d1","ssid":"n","key_pair":
F_M2a ==
  <<123, 34, 100, 101, 118, 105, 99, 101, 95, 105, 100, 34, 58, 34, 100, 49,
     34, 44, 34, 115, 115, 105, 100, 34, 58, 34, 110, 34, 44, 34, 107, 101,
     121, 95, 112, 97, 105, 114, 34, 58>>

\* {"publicKey":"p"}}
F_M2b ==
  <<123, 34, 112, 117, 98, 108, 105, 99, 75, 101, 121, 34, 58, 34, 112, 34,
     125, 125>>

\* "{\"device_id\":\"d1\",\"ssid\":\"n\",\"publicKey\":\"p\"}"
F_M4 ==
  <<34, 123, 92, 34, 100, 101, 118, 105, 99, 101, 95, 105, 100, 92, 34, 58,
     92, 34, 100, 49, 92, 34, 44, 92, 34, 115, 115, 105, 100, 92, 34, 58, 92,
     34, 110, 92, 34, 44, 92, 34, 112, 117, 98, 108, 105, 99, 75, 101, 121,
     92, 34, 58, 92, 34, 112, 92, 34, 125, 34>>

\* {"device_id":
F_M5 ==
  <<123, 34, 100, 101, 118, 105, 99, 101, 95, 105, 100, 34, 58>>

\* {"device_id":"","ssid":"n","key_pair":"x"}
F_M7 ==
  <<123, 34, 100, 101, 118, 105, 99, 101, 95, 105, 100, 34, 58, 34, 34, 44,
     34, 115, 115, 105, 100, 34, 58, 34, 110, 34, 44, 34, 107, 101, 121, 95,
     112, 97, 105, 114, 34, 58, 34, 120, 34, 125>>

\* {"device_id"}
F_M8 ==
  <<123, 34, 100, 101, 118, 105, 99, 101, 95, 105, 100, 34, 125>>

\* {"device_id":"","ssid":"n"}
F_M9 ==
  <<123, 34, 100, 101, 118, 105, 99, 101, 95, 105, 100, 34, 58, 34, 34, 44,
     34, 115, 115, 105, 100, 34, 58, 34, 110, 34, 125>>

Messages ==
  << <<F_M1a, F_M1b, F_M1c>>,   \* 1  valid, three fragments
     <<F_M2a, F_M2b>>,          \* 2  valid, nested key_pair, split before it
     <<F_M4>>,                  \* 3  valid, wrapped in a JSON string
     <<F_M5>>,                  \* 4  the beginning of an object, never ended
     <<F_M7>>,                  \* 5  device_id empty, key_pair a string
     <<F_M8>>,                  \* 6  balanced braces, no JSON
     <<F_M9>> >>                \* 7  device_id empty, no public key

\* the messages that are valid device configurations, and the values of
\* device_id, ssid and the public key each one carries
ValidMsgs == {1, 2, 3}

Carried(m) ==
  IF m = 1 THEN [device_id |-> <<100, 49>>,
                 ssid |-> <<110, 101, 116, 119, 111, 114, 107>>,
                 publicKey |-> <<112, 117, 98, 75, 101, 121, 49, 50, 51>>]
  ELSE [device_id |-> <<100, 49>>, ssid |-> <<110>>, publicKey |-> <<112>>]

\* ---- the runs of a session that are explored -----------------------------
\* [setup, tick, file]: the setup, ticks_ms() when start() is called (some
\* value, or one from which the clock wraps to 0 during the session) and
\* the stored file.  timeout_arg 5 gives the least timeout there is, 30 s.
LongRun == 300

Starts ==
  { \* every message, sent without pauses
    [setup |-> [DefaultSetup EXCEPT !.timeout_arg = 5, !.handles = {1},
                                    !.msgs = {1, 2, 3, 5, 6, 7}, !.iters = {1}],
     tick |-> 1000, file |-> FileAbsent],
    \* pauses between fragments, on a clock that wraps
    [setup |-> [DefaultSetup EXCEPT !.timeout_arg = 5, !.reset = "returns",
                                    !.mtu = 23, !.adv_fail = 1, !.handles = {0},
                                    !.msgs = {3, 4}, !.iters = {1, 21}],
     tick |-> TICKS_PERIOD - 480, file |-> FileOld],
    \* a session that runs into its timeout
    [setup |-> [DefaultSetup EXCEPT !.timeout_arg = 5, !.auto_reset = FALSE,
                                    !.mtu = 180, !.handles = {0, 1},
                                    !.msgs = {3, 4}, !.iters = {LongRun}],
     tick |-> 1000, file |-> FileOld],
    \* a radio that does not advertise
    [setup |-> [DefaultSetup EXCEPT !.adv_fail = 3], tick |-> 1000,
     file |-> FileAbsent],
    \* a build without bluetooth
    [setup |-> [DefaultSetup EXCEPT !.bt = FALSE], tick |-> 1000,
     file |-> FileAbsent] }

Init ==
  /\ \E c \in Starts : now = c.tick /\ Constructed(c.setup) /\ file = c.file
  /\ Idle
  /\ NoHistory
  /\ boot = NoBoot /\ call = NoCall

\* ---- start(), lines 488-577 --------------------------------------------
StartInit ==
  /\ pc = "new"
  /\ IF ~setup.bt THEN
       /\ pc' = "done" /\ ret' = FALSE
       /\ UNCHANGED <<now, mtu_size, advertising, radio_adv, ble_active,
                      start_ms, last_adv_check, fast_adv_until, h_since>>
     ELSE
       LET sa == _start_advertising(TRUE, setup.adv_fail)
           t == ticks_add(now, 100 + 300 + sa.dt)
       IN /\ now' = t
          /\ h_since' = Elapsed(h_since, 100 + 300 + sa.dt)
          /\ ble_active' = TRUE
          /\ mtu_size' = setup.mtu
          /\ advertising' = sa.ok
          /\ radio_adv' = sa.radio
          /\ IF sa.ok THEN
               /\ pc' = "loop" /\ ret' = ret
               /\ start_ms' = t /\ last_adv_check' = t
               /\ fast_adv_until' = t + 60000
             ELSE
               /\ pc' = "done" /\ ret' = FALSE
               /\ UNCHANGED <<start_ms, last_adv_check, fast_adv_until>>
  /\ UNCHANGED <<bufVars, setup, timeout_s, conn, connected, saved, last_ping,
                 connection_attempts, link, file, tx_log, peer, short_used,
                 unitVars, h_op, h_pre, h_frag, h_trunc, h_gap, sessHist>>

\* ---- the supervisor loop, lines 579-629 --------------------------------
\* The state one iteration works on: t is the clock, why the reason the
\* loop was left.
LoopState ==
  [t |-> now, pc |-> pc, why |-> h_exit, connected |-> connected,
   conn |-> conn, advertising |-> advertising, radio |-> radio_adv,
   last_ping |-> last_ping, last_adv_check |-> last_adv_check,
   fast_adv_until |-> fast_adv_until]

\* the liveness check that does not restart advertising
AdvCheck_NoRestart(st, n) ==
  IF ~st.connected /\ ticks_diff(n, st.last_adv_check) > 10000
    THEN [st EXCEPT !.last_adv_check = n]
    ELSE st

\* lines 586-591
AdvCheck(st, n) ==
  IF ~st.connected /\ ticks_diff(n, st.last_adv_check) > 10000 THEN
    IF ~st.advertising THEN
      LET sa == _start_advertising(n < st.fast_adv_until, setup.adv_fail) IN
      [st EXCEPT !.advertising = sa.ok, !.radio = sa.radio,
                 !.t = ticks_add(st.t, sa.dt), !.last_adv_check = n]
    ELSE [st EXCEPT !.last_adv_check = n]
  ELSE st

\* lines 594-602
SlowSwitch(st, n) ==
  IF ~st.connected /\ n > st.fast_adv_until THEN
    LET sa == _start_advertising(FALSE, setup.adv_fail) IN
    [st EXCEPT !.advertising = sa.ok, !.radio = sa.radio,
               !.t = ticks_add(st.t, 50 + sa.dt),
               !.fast_adv_until = n + 3600000]
  ELSE st

\* lines 605-619; probe_ok: gatts_read did not raise
HealthCheck(st, n, probe_ok) ==
  IF st.connected /\ ticks_diff(n, st.last_ping) > 5000 THEN
    IF probe_ok THEN [st EXCEPT !.last_ping = n]
    ELSE
      LET sa == _start_advertising(TRUE, setup.adv_fail) IN
      [st EXCEPT !.connected = FALSE, !.conn = NoConn,
                 !.advertising = sa.ok, !.radio = sa.radio,
                 !.t = ticks_add(st.t, 50 + sa.dt)]
  ELSE st

\* one pass of the while statement: the test of line 579, the timeout test
\* of line 581, the three checks and the sleep of line 629
LoopBody(st, probe_ok) ==
  IF saved THEN [st EXCEPT !.pc = "exit", !.why = "saved"]
  ELSE IF ticks_diff(st.t, start_ms) >= timeout_s * 1000 THEN
    [st EXCEPT !.pc = "exit", !.why = "timeout"]
  ELSE
    LET n == st.t
        s3 == HealthCheck(SlowSwitch(AdvCheck(st, n), n), n, probe_ok)
    IN [s3 EXCEPT !.t = ticks_add(s3.t, 100)]

\* none of the tests of lines 579, 581, 586, 594 and 605 succeeds in a pass
\* that starts at clock value t
Quiet(st, t) ==
  /\ ~saved
  /\ ticks_diff(t, start_ms) < timeout_s * 1000
  /\ st.connected \/ ticks_diff(t, st.last_adv_check) <= 10000
  /\ st.connected \/ t <= st.fast_adv_until
  /\ ~st.connected \/ ticks_diff(t, st.last_ping) <= 5000

\* k passes, or fewer when the loop is left.  The tests of a pass depend on
\* the clock only, and each one, once it succeeds, goes on succeeding as the
\* clock moves on (until the clock wraps): so when the last of k passes is
\* quiet and the clock does not wrap before it, all k passes are quiet and
\* do nothing but sleep.  Otherwise the passes are run by halves.
RECURSIVE RunIters(_, _, _)
RunIters(st, k, probe_ok) ==
  IF k = 0 \/ st.pc # "loop" THEN st
  ELSE IF k = 1 THEN LoopBody(st, probe_ok)
  ELSE IF st.t + 100 * (k - 1) < TICKS_PERIOD /\ Quiet(st, st.t + 100 * (k - 1))
    THEN [st EXCEPT !.t = ticks_add(st.t, 100 * k)]
  ELSE RunIters(RunIters(st, k \div 2, probe_ok), k - k \div 2, probe_ok)

\* k passes of the loop with no event in between
LoopRun(k, probe_ok) ==
  /\ pc = "loop"
  /\ (k < LongRun /\ ~saved) => short_used < setup.sleeps
  /\ short_used' = IF k < LongRun /\ ~saved THEN short_used + 1 ELSE short_used
  /\ probe_ok \/ connected
  /\ \E st \in {RunIters(LoopState, k, probe_ok)} :
     /\ probe_ok \/ st.connected # connected
     /\ now' = st.t
     /\ h_since' = Elapsed(h_since, ticks_diff(st.t, now))
     /\ pc' = st.pc
     /\ h_exit' = st.why
     /\ connected' = st.connected
     /\ conn' = st.conn
     /\ advertising' = st.advertising
     /\ radio_adv' = st.radio
     /\ last_ping' = st.last_ping
     /\ last_adv_check' = st.last_adv_check
     /\ fast_adv_until' = st.fast_adv_until
  /\ UNCHANGED <<bufVars, setup, timeout_s, mtu_size, saved,
                 connection_attempts, ret, start_ms, link, ble_active, file,
                 tx_log, peer, unitVars, h_op, h_pre, h_frag, h_trunc, h_gap,
                 h_result, h_ptxt, h_save, h_file, h_saved, h_epoch,
                 h_resets>>

\* ---- after the loop, lines 633-646 -------------------------------------
\* start() without the reset attempt of lines 633-639
AfterLoop_NoSecondReset ==
  /\ pc = "exit"
  /\ pc' = "cl_adv"
  /\ UNCHANGED <<now, bufVars, objVars, ret, start_ms, last_adv_check,
                 fast_adv_until, envVars, unitVars, framerHist, sessHist>>

\* lines 633-639: the second reset attempt, on a platform whose reset does
\* not restart the device (otherwise the device restarted when saving)
AfterLoop ==
  /\ pc = "exit"
  /\ IF saved /\ setup.auto_reset THEN
       /\ h_resets' = h_resets + 1
       /\ IF setup.reset = "resets" THEN
            /\ pc' = "reset"
            /\ link' = 0 /\ ble_active' = FALSE /\ radio_adv' = "off"
          ELSE
            /\ pc' = "cl_adv"
            /\ UNCHANGED <<link, ble_active, radio_adv>>
     ELSE
       /\ pc' = "cl_adv"
       /\ UNCHANGED <<link, ble_active, radio_adv, h_resets>>
  /\ UNCHANGED <<now, bufVars, objVars, ret, start_ms, last_adv_check,
                 fast_adv_until, file, tx_log, peer, short_used, unitVars,
                 framerHist, h_result, h_ptxt, h_save, h_file, h_saved,
                 h_epoch, h_exit>>

\* _cleanup_ble lines 122-128
CleanupAdv ==
  /\ pc = "cl_adv"
  /\ pc' = "cl_conn"
  /\ advertising' = FALSE
  /\ radio_adv' = "off"
  /\ UNCHANGED <<now, bufVars, setup, timeout_s, mtu_size, conn, connected,
                 saved, last_ping, connection_attempts, ret, start_ms,
                 last_adv_check, fast_adv_until, link, ble_active, file,
                 tx_log, peer, short_used, unitVars, framerHist, sessHist>>

\* the connection cleared together with the saved flag
CleanupConn_ClearsSaved ==
  /\ pc = "cl_conn"
  /\ pc' = "cl_off"
  /\ saved' = FALSE
  /\ IF conn # NoConn /\ conn # 0
       THEN conn' = NoConn /\ connected' = FALSE
       ELSE UNCHANGED <<conn, connected>>
  /\ UNCHANGED <<now, bufVars, setup, timeout_s, mtu_size, advertising,
                 last_ping, connection_attempts, ret, start_ms,
                 last_adv_check, fast_adv_until, envVars, unitVars,
                 framerHist, sessHist>>

\* _cleanup_ble lines 131-139: "if self._conn" is false for None and for 0
CleanupConn ==
  /\ pc = "cl_conn"
  /\ pc' = "cl_off"
  /\ IF conn # NoConn /\ conn # 0
       THEN conn' = NoConn /\ connected' = FALSE
       ELSE UNCHANGED <<conn, connected>>
  /\ UNCHANGED <<now, bufVars, setup, timeout_s, mtu_size, saved, advertising,
                 last_ping, connection_attempts, ret, start_ms,
                 last_adv_check, fast_adv_until, envVars, unitVars,
                 framerHist, sessHist>>

\* _cleanup_ble lines 142-146, then line 646
CleanupOff ==
  /\ pc = "cl_off"
  /\ pc' = "done"
  /\ ret' = saved
  /\ ble_active' = FALSE
  /\ link' = 0
  /\ UNCHANGED <<now, bufVars, objVars, start_ms, last_adv_check,
                 fast_adv_until, radio_adv, file, tx_log, peer, short_used,
                 unitVars, framerHist, sessHist>>

\* ---- _irq, lines 369-426 -----------------------------------------------
\* where start() can be when the stack delivers an event: from the
\* registration of _irq to the deactivation of BLE
IrqPcs == {"loop", "exit", "cl_adv", "cl_conn", "cl_off"}

\* the connect handler without its _reset_buffer (line 377)
IrqConnect_NoReset(h) ==
  /\ pc \in IrqPcs /\ ble_active
  /\ link < MaxLinks /\ radio_adv # "off"
  /\ connection_attempts < MaxConnects
  /\ link' = link + 1
  /\ radio_adv' = "off"
  /\ conn' = h
  /\ connected' = TRUE
  /\ connection_attempts' = connection_attempts + 1
  /\ last_ping' = now
  /\ now' = ticks_add(now, 30 + PacingMs(Len(_STATUS_READY), mtu_size))
  /\ tx_log' = <<_STATUS_READY>>
  /\ peer' = NoPeer
  /\ h_epoch' = [h_epoch EXCEPT !.kept = rx_buf # <<>>]
  /\ UNCHANGED <<bufVars, setup, timeout_s, mtu_size, saved, advertising,
                 startVars, ble_active, file, short_used, unitVars,
                 framerHist, h_result, h_ptxt, h_save, h_file, h_saved,
                 h_exit, h_resets>>

\* lines 371-391: a central connects (the radio stops advertising) and is
\* given handle h
IrqConnect(h) ==
  /\ pc \in IrqPcs /\ ble_active
  /\ link < MaxLinks /\ radio_adv # "off"
  /\ connection_attempts < MaxConnects
  /\ link' = link + 1
  /\ radio_adv' = "off"
  /\ conn' = h
  /\ connected' = TRUE
  /\ connection_attempts' = connection_attempts + 1
  /\ last_ping' = now
  /\ LET r == _reset_buffer(now) IN rx_buf' = r.buf /\ last_frag_ms' = r.last
  /\ now' = ticks_add(now, 30 + PacingMs(Len(_STATUS_READY), mtu_size))
  /\ tx_log' = <<_STATUS_READY>>
  /\ peer' = NoPeer
  /\ h_op' = "reset"
  /\ h_since' = -1
  /\ h_epoch' = [oldest |-> 0, kept |-> rx_buf # <<>>]
  /\ UNCHANGED <<setup, timeout_s, mtu_size, saved, advertising, startVars,
                 ble_active, file, short_used, unitVars, h_pre, h_frag,
                 h_trunc, h_gap, h_result, h_ptxt, h_save, h_file, h_saved,
                 h_exit, h_resets>>

\* the disconnect handler without the test of line 397
IrqDisconnect_AlwaysAdvertise ==
  /\ pc \in IrqPcs /\ ble_active
  /\ link > 0
  /\ link' = link - 1
  /\ conn' = NoConn
  /\ connected' = FALSE
  /\ LET r == _reset_buffer(now) IN rx_buf' = r.buf /\ last_frag_ms' = r.last
  /\ LET sa == _start_advertising(TRUE, setup.adv_fail) IN
     /\ now' = ticks_add(now, 50 + sa.dt)
     /\ advertising' = sa.ok
     /\ radio_adv' = sa.radio
  /\ tx_log' = <<>>
  /\ peer' = NoPeer
  /\ h_op' = "reset"
  /\ h_since' = -1
  /\ h_epoch' = [h_epoch EXCEPT !.oldest = 0]
  /\ UNCHANGED <<setup, timeout_s, mtu_size, saved, last_ping,
                 connection_attempts, startVars, ble_active, file, short_used,
                 unitVars, h_pre, h_frag, h_trunc, h_gap, h_result, h_ptxt,
                 h_save, h_file, h_saved, h_exit, h_resets>>

\* lines 393-404: the central is gone
IrqDisconnect ==
  /\ pc \in IrqPcs /\ ble_active
  /\ link > 0
  /\ link' = link - 1
  /\ conn' = NoConn
  /\ connected' = FALSE
  /\ LET r == _reset_buffer(now) IN rx_buf' = r.buf /\ last_frag_ms' = r.last
  /\ IF ~saved THEN
       LET sa == _start_advertising(TRUE, setup.adv_fail) IN
       /\ now' = ticks_add(now, 50 + sa.dt)
       /\ advertising' = sa.ok
       /\ radio_adv' = sa.radio
     ELSE UNCHANGED <<now, advertising, radio_adv>>
  /\ tx_log' = <<>>
  /\ peer' = NoPeer
  /\ h_op' = "reset"
  /\ h_since' = -1
  /\ h_epoch' = [h_epoch EXCEPT !.oldest = 0]
  /\ UNCHANGED <<setup, timeout_s, mtu_size, saved, last_ping,
                 connection_attempts, startVars, ble_active, file, short_used,
                 unitVars, h_pre, h_frag, h_trunc, h_gap, h_result, h_ptxt,
                 h_save, h_file, h_saved, h_exit, h_resets>>

\* lines 406-423: the central writes the next fragment of message m (cont)
\* or the first fragment of message m; if the handler gets to call
\* save_config, out is what that does
IrqWrite(m, cont) ==
  /\ pc \in IrqPcs /\ ble_active
  /\ link > 0
  /\ n_ops < MaxWrites
  /\ cont => (peer.msg = m /\ peer.idx < Len(Messages[m]))
  /\ n_ops' = n_ops + 1
  /\ LET idx == IF cont THEN peer.idx + 1 ELSE 1
         frag == Messages[m][idx]
         intime == IF cont
                     THEN peer.intime /\ ticks_diff(now, peer.at) <= _FRAGMENT_TIMEOUT_MS
                     ELSE TRUE
         pre == IF cont THEN peer.pre ELSE rx_buf
         pregap == IF cont THEN peer.pregap ELSE h_since
     IN
     IF ~connected THEN
       /\ peer' = [msg |-> m, idx |-> idx, intime |-> FALSE, at |-> now,
                   pre |-> pre, pregap |-> pregap]
       /\ h_result' = "ignored"
       /\ tx_log' = <<>>
       /\ UNCHANGED <<now, bufVars, saved, file, pc, link, ble_active,
                      radio_adv, framerHist, h_ptxt, h_save, h_file,
                      h_saved, h_epoch, h_resets>>
     ELSE
       \E r \in {_append_fragment(rx_buf, last_frag_ms, frag, now)} :
       \E text \in {_safe_decode(r.buf)} :
       /\ peer' = [msg |-> m, idx |-> idx, intime |-> intime, at |-> now,
                   pre |-> pre, pregap |-> pregap]
       /\ h_op' = "append"
       /\ h_pre' = rx_buf
       /\ h_frag' = frag
       /\ h_trunc' = r.trunc
       /\ h_gap' = h_since
       /\ h_file' = file
       /\ h_saved' = saved
       /\ h_epoch' = [h_epoch EXCEPT
                        !.oldest = OldestEpoch(rx_buf, @, frag, r.buf,
                                               connection_attempts)]
       /\ IF ~_is_complete(text) THEN
            /\ rx_buf' = r.buf
            /\ last_frag_ms' = r.last
            /\ h_since' = 0
            /\ h_result' = "incomplete"
            /\ h_ptxt' = <<>>
            /\ h_save' = "none"
            /\ tx_log' = <<>>
            /\ UNCHANGED <<now, saved, file, pc, link, ble_active, radio_adv,
                           h_resets>>
          ELSE
            \E out \in SaveOutcomes :
            \E o \in {_process_config(text, mtu_size, setup.auto_reset,
                                      setup.reset = "resets", file, out)} :
            LET t == ticks_add(now, o.dt) IN
            /\ o.tried \/ out = "ok"
            /\ now' = t
            /\ rx_buf' = IF o.clear THEN _reset_buffer(t).buf ELSE r.buf
            /\ last_frag_ms' = IF o.clear THEN _reset_buffer(t).last ELSE r.last
            /\ h_since' = IF o.clear THEN -1 ELSE Elapsed(0, o.dt)
            /\ saved' = (saved \/ o.saved)
            /\ file' = o.file
            /\ tx_log' = o.tx
            /\ h_result' = o.result
            /\ h_ptxt' = text
            /\ h_save' = IF o.tried THEN out ELSE "none"
            /\ h_resets' = IF o.called THEN h_resets + 1 ELSE h_resets
            /\ IF o.reboot THEN
                 /\ pc' = "reset"
                 /\ link' = 0 /\ ble_active' = FALSE /\ radio_adv' = "off"
               ELSE UNCHANGED <<pc, link, ble_active, radio_adv>>
  /\ UNCHANGED <<setup, timeout_s, mtu_size, conn, connected, advertising,
                 last_ping, connection_attempts, ret, start_ms,
                 last_adv_check, fast_adv_until, short_used, txt, boot, call,
                 complete_res, h_exit>>

\* ---- the session -------------------------------------------------------
Supervise == \E k \in setup.iters, probe_ok \in BOOLEAN : LoopRun(k, probe_ok)
Connect == \E h \in setup.handles : IrqConnect(h)
Write == \E m \in setup.msgs, cont \in BOOLEAN : IrqWrite(m, cont)

Next ==
  \/ StartInit
  \/ Supervise
  \/ AfterLoop
  \/ CleanupAdv
  \/ CleanupConn
  \/ CleanupOff
  \/ Connect
  \/ IrqDisconnect
  \/ Write

Spec == Init /\ [][Next]_vars

\* ------------------------------------------------------------------------
\* SpecProbe: sessions in which the health probe of line 607 can fail a
\* moment after a fragment came
\* ------------------------------------------------------------------------
\* 50 passes after a connect event the probe is not yet due (5 s, line 605),
\* one pass later it is
ProbeStarts ==
  { [setup |-> [DefaultSetup EXCEPT !.timeout_arg = 5, !.handles = {1},
                                    !.msgs = {3, 4}, !.iters = {1, 50},
                                    !.sleeps = MaxShortSleeps + 1],
     tick |-> 1000, file |-> FileAbsent],
    \* the probe fails some time after a fragment came, in a session that
    \* runs into its timeout
    [setup |-> [DefaultSetup EXCEPT !.timeout_arg = 5, !.handles = {0},
                                    !.msgs = {4}, !.iters = {LongRun}],
     tick |-> 1000, file |-> FileOld] }

InitProbe ==
  /\ \E c \in ProbeStarts : now = c.tick /\ Constructed(c.setup) /\ file = c.file
  /\ Idle
  /\ NoHistory
  /\ boot = NoBoot /\ call = NoCall

SpecProbe == InitProbe /\ [][Next]_vars

\* ------------------------------------------------------------------------
\* SpecReturn: sessions on a platform whose reset() returns, with the
\* scheduling of start(): the loop goes on making passes, and the
\* statements after it are executed one after the other
\* ------------------------------------------------------------------------
ReturnStarts ==
  { [setup |-> [DefaultSetup EXCEPT !.timeout_arg = 5, !.reset = "returns",
                                    !.handles = {1}, !.msgs = {3},
                                    !.iters = {LongRun}],
     tick |-> 1000, file |-> FileOld] }

InitReturn ==
  /\ \E c \in ReturnStarts : now = c.tick /\ Constructed(c.setup) /\ file = c.file
  /\ Idle
  /\ NoHistory
  /\ boot = NoBoot /\ call = NoCall

\* the pass of the loop in which the test of line 579 finds the saved flag
\* set: the step that Supervise takes then
LoopLeave ==
  /\ pc = "loop" /\ saved
  /\ pc' = "exit"
  /\ h_exit' = "saved"
  /\ UNCHANGED <<now, bufVars, objVars, ret, start_ms, last_adv_check,
                 fast_adv_until, envVars, unitVars, framerHist, h_result,
                 h_ptxt, h_save, h_file, h_saved, h_epoch, h_resets>>

SpecReturn ==
  /\ InitReturn /\ [][Next]_vars
  /\ WF_vars(LoopLeave)
  /\ WF_vars(AfterLoop) /\ WF_vars(CleanupAdv)
  /\ WF_vars(CleanupConn) /\ WF_vars(CleanupOff)

\* ------------------------------------------------------------------------
\* SpecAdv: sessions that are long enough for the switch to slow advertising
\* (lines 594-602), and sessions with a radio that works at times only
\* ------------------------------------------------------------------------
\* timeout_arg 70: the session lasts 70 s, 700 passes of the loop
AdvStarts ==
  { \* no central ever connects
    [setup |-> [DefaultSetup EXCEPT !.timeout_arg = 70, !.iters = {1, LongRun},
                                    !.sleeps = MaxShortSleeps + 1],
     tick |-> 1000, file |-> FileAbsent],
    \* the same on a clock that wraps 30 s after start() is called
    [setup |-> [DefaultSetup EXCEPT !.timeout_arg = 70, !.iters = {1, LongRun},
                                    !.sleeps = MaxShortSleeps + 1],
     tick |-> TICKS_PERIOD - 30000, file |-> FileAbsent],
    \* a central comes and goes while the radio works at times only
    [setup |-> [DefaultSetup EXCEPT !.timeout_arg = 5, !.handles = {1},
                                    !.msgs = {4}, !.iters = {1, 50},
                                    !.sleeps = MaxShortSleeps + 2,
                                    !.flaky = TRUE],
     tick |-> 1000, file |-> FileAbsent] }
  \cup
  \* a central comes and goes after the discovery window, the radio working
  \* at times only
  { [setup |-> [DefaultSetup EXCEPT !.timeout_arg = 120, !.handles = {1},
                                    !.iters = {LongRun}, !.flaky = TRUE],
     tick |-> 1000, file |-> FileAbsent] }
  \cup
  \* a radio that rejects the first one, two or three attempts of every
  \* _start_advertising call
  { [setup |-> [DefaultSetup EXCEPT !.timeout_arg = 70, !.adv_fail = k,
                                    !.iters = {LongRun}],
     tick |-> 1000, file |-> FileAbsent] : k \in 1..3 }

InitAdv ==
  /\ \E c \in AdvStarts : now = c.tick /\ Constructed(c.setup) /\ file = c.file
  /\ Idle
  /\ NoHistory
  /\ boot = NoBoot /\ call = NoCall

\* the radio begins to reject every attempt to advertise (lines 480-484), or
\* ceases to
RadioChange ==
  /\ setup.flaky /\ pc \in IrqPcs
  /\ setup' = [setup EXCEPT !.adv_fail = IF @ = 0 THEN 3 ELSE 0]
  /\ UNCHANGED <<now, bufVars, timeout_s, mtu_size, conn, connected, saved,
                 advertising, last_ping, connection_attempts, startVars,
                 envVars, unitVars, framerHist, sessHist>>

NextAdv ==
  \/ Next
  \/ RadioChange

SpecAdv == InitAdv /\ [][NextAdv]_vars

\* ------------------------------------------------------------------------
\* SpecPayload: the constructor's name (line 71) and the advertising
\* payload _adv_payload builds from it (lines 429-440), for names of up to
\* MaxNameLen characters
\* ------------------------------------------------------------------------
MaxNameLen == 24

\* "CYBERFLY-SETUP"
S_default_name == <<67,89,66,69,82,70,76,89,45,83,69,84,85,80>>

\* line 71: (name or "CYBERFLY-SETUP")[:20], a slice of characters
StoredName(name) ==
  LET n == IF name = <<>> THEN S_default_name ELSE name
  IN SubSeq(n, 1, IF Len(n) < 20 THEN Len(n) ELSE 20)

\* lines 429-440: flags, the length-prefixed complete local name, the
\* 16-bit service UUID 0x1801 and the TX power level
_adv_payload(name) ==
  LET b == Utf8Encode(name)
  IN <<2, 1, 6>> \o <<Len(b) + 1, 9>> \o b \o <<3, 3, 1, 24>> \o <<2, 10, 0>>

\* how many attempts of _start_advertising a radio rejects that takes
\* advertising data of at most 31 bytes: none, or the two that carry the
\* payload (lines 463 and 471)
RejectedFor(adv) == IF Len(adv) > 31 THEN 2 ELSE 0

\* names of n characters: ASCII, every third character of two bytes, and
\* every character of two bytes
NameOf(n, kind) ==
  [i \in 1..n |-> CASE kind = 0 -> 65 + (i % 7)
                    [] kind = 1 -> (IF i % 3 = 0 THEN 233 ELSE 97 + (i % 7))
                    [] OTHER -> 233]

InitPayload ==
  /\ now = 0
  /\ Constructed(DefaultSetup) /\ file = FileAbsent
  /\ Idle
  /\ NoHistory
  /\ boot = NoBoot
  /\ \E n \in 0..MaxNameLen, kind \in 0..2 :
       call = [fn |-> "_adv_payload", in |-> [name |-> NameOf(n, kind)],
               done |-> FALSE, out |-> <<>>]

\* __init__ line 71, then _start_advertising(fast=True) lines 442-484 with
\* the payload of line 454
AdvPayload ==
  /\ call.fn = "_adv_payload" /\ ~call.done
  /\ \E nm \in {StoredName(call.in.name)} :
     \E adv \in {_adv_payload(nm)} :
       call' = [call EXCEPT
                  !.done = TRUE,
                  !.out = [name |-> nm, adv |-> adv,
                           sa |-> _start_advertising(TRUE, RejectedFor(adv))]]
  /\ UNCHANGED <<now, bufVars, objVars, startVars, envVars, txt,
                 complete_res, n_ops, boot, framerHist, sessHist>>

SpecPayload == InitPayload /\ [][AdvPayload]_vars

\* ========================================================================
\* Claims
\* ========================================================================

\* C5: after any sequence of _append_fragment calls and resets the receive
\* buffer holds at most 384 bytes, and an append that truncates leaves exactly
\* the last 384 bytes of (buffer before the call, then the fragment).
C5_CapacityBound ==
  /\ Len(rx_buf) <= _MAX_RX
  /\ (h_op = "append" /\ h_trunc) => rx_buf = LastN(h_pre \o h_frag, _MAX_RX)

\* a truncating append that kept bytes of the old buffer and of a fragment
\* shorter than the capacity
C5_Witness ==
  /\ h_op = "append" /\ h_trunc
  /\ h_pre # <<>> /\ Len(h_frag) < _MAX_RX
  /\ rx_buf # h_frag

\* the first byte of f other than space, tab, LF, CR is an opening brace
BeginsWithBrace(f) ==
  \E i \in 1..Len(f) :
    /\ f[i] = LBRACE
    /\ \A j \in 1..(i - 1) : f[j] \in {32, 9, 10, 13}

\* C6: whatever the buffer held and however long ago the previous fragment
\* came, appending a fragment whose first non-whitespace byte is an opening
\* brace leaves the buffer equal to that fragment (its last 384 bytes).
C6_ResetOnNewObject ==
  (h_op = "append" /\ BeginsWithBrace(h_frag)) => rx_buf = LastN(h_frag, _MAX_RX)

\* such an append onto a non-empty, fresh buffer, the brace after whitespace
C6_Witness ==
  /\ h_op = "append" /\ BeginsWithBrace(h_frag) /\ h_frag[1] # LBRACE
  /\ h_pre # <<>>
  /\ h_gap \in 0.._FRAGMENT_TIMEOUT_MS

\* C7: a non-empty fragment appended more than 2000 ms after the previous
\* one, with no append or reset in between, leaves only its own bytes in the
\* buffer, whatever the clock read when the previous one arrived.
C7_StalenessEviction ==
  (h_op = "append" /\ h_gap > _FRAGMENT_TIMEOUT_MS) => rx_buf = LastN(h_frag, _MAX_RX)

\* text without its leading and trailing whitespace
Trimmed(t) ==
  LET keep == {i \in 1..Len(t) : ~IsSpace(t[i])} IN
  IF keep = {} THEN <<>>
  ELSE LET lo == CHOOSE i \in keep : \A j \in keep : i <= j
           hi == CHOOSE i \in keep : \A j \in keep : i >= j
       IN SubSeq(t, lo, hi)

\* position i follows an odd run of backslashes: the walk skips it
Escaped(u, i) ==
  Cardinality({j \in 1..(i - 1) : \A k \in j..(i - 1) : u[k] = BACKSLASH}) % 2 = 1

\* position i lies inside a double-quoted string
InString(u, i) ==
  Cardinality({j \in 1..(i - 1) : u[j] = QUOTE /\ ~Escaped(u, j)}) % 2 = 1

\* braces c at positions up to k that are neither escaped nor inside a string
Braces(u, k, c) ==
  Cardinality({i \in 1..k : u[i] = c /\ ~Escaped(u, i) /\ ~InString(u, i)})

Depth(u, k) == Braces(u, k, LBRACE) - Braces(u, k, RBRACE)

IsQuoted(s) == s # <<>> /\ s[1] = QUOTE /\ s[Len(s)] = QUOTE

\* what C8 says _is_complete returns
C8_Complete(t) ==
  LET s == Trimmed(t) IN
  /\ s # <<>>
  /\ IsQuoted(s) => json_loads(s).ok
  /\ LET u == IF IsQuoted(s) THEN Trimmed(json_loads(s).val.s) ELSE s IN
     /\ u # <<>> /\ u[1] = LBRACE /\ u[Len(u)] = RBRACE
     /\ \A k \in 1..Len(u) : Depth(u, k) >= 0
     /\ Depth(u, Len(u)) = 0

\* C8: _is_complete(text) is true exactly when the trimmed text, unwrapped
\* one level if it is a quoted JSON string, starts with an opening and ends
\* with a closing brace and its brace depth, counted outside strings and
\* escapes, never goes negative and ends at zero; an empty text and a quoted
\* wrapper that does not parse are incomplete.
C8_IsComplete ==
  complete_res # "none" => ((complete_res = "true") <=> C8_Complete(txt))

\* a quoted wrapper found complete
C8_Witness == complete_res = "true" /\ txt[1] = QUOTE

\* ---- claims about the session (Spec) ----------------------------------
\* the last event was a write that the handler took in, and it delivered
\* the fragment number idx of message m
Delivered(m, idx) ==
  /\ peer.msg = m /\ peer.idx = idx
  /\ h_result # "ignored"

\* save_config did not fail in the last write event
NoSaveFailure == h_save \in {"none", "ok"}

\* C1: after a connect event, when the last fragment of a valid message has
\* been delivered, the fragments having arrived in order into an empty
\* buffer, each within 2000 ms of the one before, the message was saved: the
\* stored record carries the message's device_id, ssid and public key,
\* `saved` was notified, and start(), if it has returned, returned true.
C1_FragmentedDelivery ==
  \A m \in ValidMsgs :
    (/\ Delivered(m, Len(Messages[m]))
     /\ peer.intime /\ peer.pre = <<>>
     /\ NoSaveFailure)
    => /\ h_result = "saved"
       /\ file.st = "new"
       /\ file.rec.device_id = Carried(m).device_id
       /\ file.rec.ssid = Carried(m).ssid
       /\ file.rec.publicKey = Carried(m).publicKey
       /\ tx_log = <<_STATUS_SAVED>>
       /\ pc = "done" => ret

\* C2: when save_config has failed in the last write event, no file exists
\* that did not exist before the event, the saved flag was not set by it,
\* the one notification sent is `save_failed`, and the device did not
\* restart.
C2_SaveFailure ==
  (peer.msg # 0 /\ h_result # "ignored" /\ h_save \in SaveOutcomes \ {"ok"})
  => /\ h_file.st = "absent" => file.st = "absent"
     /\ saved = h_saved
     /\ tx_log = <<_ERROR_SAVE_FAIL>>
     /\ pc # "reset"

\* the complete messages in which device_id, ssid or the public key is absent
\* or empty, and the names of the fields each one lacks
LackingMsgs == {5, 7}

Lacking(m) == <<S_device_id, S_publicKey>>

\* C3: when a complete message that lacks device_id, ssid or the public key
\* has been delivered, one notification was sent, the `missing:` status
\* naming the fields it lacks in the order device_id, ssid, publicKey;
\* save_config was not called, the saved flag was not set and the receive
\* buffer is empty.
C3_MissingReported ==
  \A m \in LackingMsgs :
    Delivered(m, 1)
    => /\ Len(tx_log) = 1
       /\ tx_log[1] \in {MissingStatus(Lacking(m)), EnvelopeOf(MissingStatus(Lacking(m)))}
       /\ h_save = "none" /\ file = h_file
       /\ saved = h_saved
       /\ rx_buf = <<>>

\* C4: the loop was left because the saved flag was true or because the
\* timeout had elapsed since the session started; what start() returned is
\* the saved flag (which only a save_config that returned sets, line 331),
\* and it is false when the loop was left on timeout.
C4_LoopExitAndReturn ==
  /\ h_exit = "saved" => saved
  /\ h_exit = "timeout" => ticks_diff(now, start_ms) >= timeout_s * 1000
  /\ pc = "done" =>
       /\ ret = saved
       /\ h_exit = "timeout" => ~ret

\* the beginnings of objects the messages leave in the buffer
Partials == {F_M5, F_M1a, F_M1a \o F_M1b, F_M2a}

\* C10: when the buffer held an unterminated object, no fragment had arrived
\* for more than 2000 ms, and then a valid message was delivered in one
\* write, the bytes of the unterminated object were discarded: the text
\* processed is the message alone, and it was saved.
C10_StalePartialDiscarded ==
  \A m \in {k \in ValidMsgs : Len(Messages[k]) = 1} :
    (/\ Delivered(m, 1)
     /\ peer.pre \in Partials
     /\ peer.pregap > _FRAGMENT_TIMEOUT_MS
     /\ NoSaveFailure)
    => /\ h_ptxt = Messages[m][1]
       /\ h_result = "saved"
       /\ file.st = "new"

\* C11: in a session constructed with timeout 5 s in which no central has
\* connected, the device does not restart (reset is called only once the
\* saved flag is set, lines 345 and 633), and start(), once it has returned,
\* returned false between 5 s and 6 s after the session started.
C11_TimeoutNoConnect ==
  (setup.timeout_arg = 5 /\ setup.bt /\ connection_attempts = 0)
  => /\ pc # "reset" /\ ~saved
     /\ pc = "done" =>
          /\ ~ret
          /\ ticks_diff(now, start_ms) >= 5000
          /\ ticks_diff(now, start_ms) <= 6000

\* C12: for every integer timeout passed to the constructor the timeout in
\* effect is min(600, max(30, timeout)) seconds, a value from 30 to 600.
C12_TimeoutClamp ==
  pc = "new"
  => /\ timeout_s = Min(600, Max(30, setup.timeout_arg))
     /\ timeout_s >= 30 /\ timeout_s <= 600

\* the constructor has run for a negative timeout
C12_Witness ==
  pc = "new" /\ setup.timeout_arg < 0 /\ timeout_s = 30

\* the nonempty lists of required field names, in the order of lines 310-312
MissingLists ==
  {<<S_device_id>>, <<S_ssid>>, <<S_publicKey>>,
   <<S_device_id, S_ssid>>, <<S_device_id, S_publicKey>>,
   <<S_ssid, S_publicKey>>, <<S_device_id, S_ssid, S_publicKey>>}

\* the five shapes of a status
FixedShapes ==
  {_STATUS_READY, _STATUS_SAVED, _ERROR_BAD_JSON, _ERROR_SAVE_FAIL}
  \cup {MissingStatus(names) : names \in MissingLists}

\* C13: every payload an event handler has handed to the transport is one of
\* the five status shapes, the `missing:` status too, with nothing wrapped
\* around it.
C13_StatusShapes ==
  \A i \in 1..Len(tx_log) : tx_log[i] \in FixedShapes

\* C14: whatever statement of save_config fails, the stored file is then
\* either what it was before the call or the complete new record, never an
\* empty or partly written file.
C14_AtomicWrite ==
  (peer.msg # 0 /\ h_result # "ignored" /\ h_save \in SaveOutcomes \ {"ok"})
  => /\ file.st # "partial"
     /\ file = h_file \/ file.st = "new"

\* C15: a write event that finds the saved flag set (save_config has
\* succeeded earlier in the session) does not call save_config and leaves
\* the stored file as it is.
C15_WrittenOnce ==
  (peer.msg # 0 /\ h_result # "ignored" /\ h_saved)
  => /\ h_save = "none"
     /\ file = h_file

\* how a write event ends when the message is refused or cannot be stored
ErrorResults == {"bad_json", "raised", "missing", "save_failed"}

\* the valid message frag, written whole now, would be saved
AcceptsNext(frag) ==
  LET text == _safe_decode(_append_fragment(rx_buf, last_frag_ms, frag, now).buf)
  IN /\ _is_complete(text)
     /\ _process_config(text, mtu_size, setup.auto_reset,
                        setup.reset = "resets", file, "ok").result = "saved"

\* valid messages in one piece, bare and wrapped in quotes
WholeMsgs == {F_M1a \o F_M1b \o F_M1c, F_M4}

\* C16: when a write event has ended in an error (malformed JSON, a field of
\* an unexpected type, missing fields, a failed save) in a session that had
\* saved nothing, the device has not restarted, the saved flag is still
\* false, and a valid message written next is accepted and saved.
C16_ErrorsHandledLocally ==
  (peer.msg # 0 /\ h_result \in ErrorResults /\ ~h_saved /\ connected)
  => /\ pc # "reset"
     /\ ~saved
     /\ \A frag \in WholeMsgs : AcceptsNext(frag)

\* the stored configuration has device_id, ssid and key_pair.publicKey, none
\* of them empty
StoredValid ==
  /\ boot.in.readable
  /\ boot.in.d = "set" /\ boot.in.s = "set" /\ boot.in.k = "set"

\* C17: with BLE enabled, boot() has called provision() exactly when the
\* stored configuration is absent or invalid or the button trigger fired;
\* with a valid stored configuration and no trigger it returned a client
\* built from the stored device_id, ssid and key pair.
C17_BootDecision ==
  (boot.done /\ boot.in.ble)
  => /\ boot.out.provisioned <=> (~StoredValid \/ boot.out.trigger)
     /\ (StoredValid /\ ~boot.out.trigger)
        => /\ boot.out.result = "client"
           /\ boot.out.client.device_id = StrV(<<100, 49>>)
           /\ boot.out.client.ssid = StrV(<<110>>)
           /\ Get(boot.out.client.key_pair, S_publicKey) = StrV(<<112>>)

\* boot() has run with BLE enabled on a valid stored configuration and
\* returned a client
C17_Witness ==
  /\ boot.done /\ boot.in.ble /\ StoredValid
  /\ boot.out.result = "client" /\ ~boot.out.provisioned

\* C18: when the button is down from the start of boot() and stays down for
\* long_ms and more after the hold test begins, boot() calls provision()
\* although the stored configuration is valid.
C18_ButtonHold ==
  (/\ boot.done /\ boot.in.ble /\ StoredValid
   /\ boot.in.has_machine /\ boot.in.pin_given
   /\ boot.in.sig.down = 0
   /\ boot.in.sig.up >= 160 + boot.in.long_ms + 100)
  => boot.out.provisioned

\* C19: a connect event (one more central is connected) leaves the handle
\* of the new connection in self._conn and connected true, the receive
\* buffer empty whatever it held before, and `ready` as the first
\* notification sent.
C19_ConnectEvent ==
  [][link' > link
     => /\ conn' \in setup.handles
        /\ connected'
        /\ rx_buf' = <<>>
        /\ tx_log' # <<>> /\ tx_log'[1] = _STATUS_READY]_vars

\* a second central has connected while the buffer held the beginning of a
\* message (the last write left it incomplete), and the buffer is empty
C19_Witness ==
  /\ link = 2 /\ connected /\ conn \in setup.handles
  /\ h_result = "incomplete"
  /\ rx_buf = <<>> /\ tx_log = <<_STATUS_READY>>

\* C20: a disconnect event (one central fewer, BLE still active) leaves
\* self._conn None, connected false and the buffer empty; with the saved flag
\* false advertising has been restarted, at the fast interval when the radio
\* takes it and never at the slow one; with the saved flag true the
\* advertising state is what it was.
C20_DisconnectEvent ==
  [][(link' < link /\ ble_active')
     => /\ conn' = NoConn
        /\ ~connected'
        /\ rx_buf' = <<>>
        /\ ~saved => /\ radio_adv' # "slow"
                     /\ setup.adv_fail = 0 => (radio_adv' = "fast" /\ advertising')
                     /\ setup.adv_fail < 3 => (radio_adv' # "off" /\ advertising')
        /\ saved => (radio_adv' = radio_adv /\ advertising' = advertising)]_vars

\* the central has gone while the buffer held the beginning of a message and
\* nothing was saved: the buffer is empty and the radio advertises fast
C20_Witness ==
  /\ ble_active /\ link = 0 /\ connection_attempts > 0
  /\ conn = NoConn /\ ~connected /\ ~saved
  /\ h_result = "incomplete" /\ rx_buf = <<>>
  /\ radio_adv = "fast" /\ advertising

\* C21: the bytes a handled write leaves in the buffer, which are the bytes
\* its message is assembled from, were all received during the connection
\* that is the latest one: none is from an earlier connection.
C21_NoByteAcrossConnections ==
  (peer.msg # 0 /\ h_result # "ignored") =>
    h_epoch.oldest = connection_attempts

\* a message is saved in the second connection, which began when the buffer
\* held bytes of the first
C21_Witness ==
  /\ connection_attempts = 2 /\ h_epoch.kept
  /\ peer.msg \in ValidMsgs /\ h_result = "saved"
  /\ h_epoch.oldest = 2

\* C22: when the health probe fails while connected, the session is left as
\* a disconnect event leaves it: no handle, not connected, the receive buffer
\* empty and, when nothing is saved, advertising restarted in fast mode.
C22_ProbeFailureAsDisconnect ==
  [][(pc = "loop" /\ connected /\ ~connected' /\ link' = link) =>
        /\ conn' = NoConn
        /\ rx_buf' = <<>>
        /\ ~saved => (radio_adv' = "fast" /\ advertising')]_vars

\* C23: in a session in which no central ever connects and the radio rejects
\* no attempt to advertise, the radio advertises
\* in fast mode from the start of the session until 60 s have gone by, is
\* switched to slow mode by the first pass of the supervisor loop after that,
\* and stays in slow mode from then on: there is one switch, no second one.
C23_FastThenSlow ==
  (pc = "loop" /\ connection_attempts = 0 /\ ~setup.flaky
     /\ setup.adv_fail = 0) =>
    /\ ticks_diff(now, start_ms) <= 60000 + 100 => radio_adv = "fast"
    /\ ticks_diff(now, start_ms) > 60000 + 100 =>
         /\ radio_adv = "slow"
         /\ fast_adv_until = start_ms + 60000 + 100 + 3600000

\* C24: while no central is connected, nothing is saved and the session has
\* not timed out, passes of the supervisor loop that begin with advertising
\* inactive make the liveness check when it is due, which is in their first
\* pass or at most 10 s later: on a radio that works advertising is active
\* after them, on a radio that does not the check is made again 10 s later.
C24_AdvertisingRestarted ==
  [][(/\ pc = "loop" /\ pc' = "loop" /\ now' # now /\ link' = link
      /\ ~connected /\ ~connected' /\ ~saved /\ ~advertising
      /\ setup' = setup
      /\ \/ ticks_diff(now, last_adv_check) > 10000
         \/ ticks_diff(now', now) > 10000 + 100)
     => IF setup.adv_fail = 0
          THEN advertising' /\ radio_adv' \in {"fast", "slow"}
          ELSE ~advertising' /\ last_adv_check' # last_adv_check]_vars

\* the pass that made the liveness check has just ended, after a central
\* was connected: it spent 50 ms in _start_advertising, and the radio
\* advertises
C24_Witness ==
  /\ pc = "loop" /\ setup.flaky /\ setup.adv_fail = 0
  /\ connection_attempts > 0 /\ ~connected /\ ~saved
  /\ advertising /\ radio_adv = "fast"
  /\ ticks_diff(now, last_adv_check) = 50 + 100

\* C25: when a message that the detector found complete did not parse as a
\* JSON object, `bad_json` is what was notified, the buffer is empty,
\* save_config was not called (the file is as it was), the saved flag is as
\* it was, and a valid message written next is taken in and saved.
C25_BadJson ==
  (peer.msg # 0 /\ h_result = "bad_json")
  => /\ tx_log = <<_ERROR_BAD_JSON>>
     /\ rx_buf = <<>>
     /\ h_save = "none" /\ file = h_file
     /\ saved = h_saved
     /\ \A frag \in WholeMsgs : AcceptsNext(frag)

\* {"device_id"} has been written to a connected engine
C25_Witness ==
  /\ peer.msg = 6 /\ h_result = "bad_json" /\ h_ptxt = _safe_decode(F_M8)
  /\ connected /\ ~saved /\ rx_buf = <<>>

\* C26: whenever the last write event handed a complete message to the
\* configuration processor and the handler has ended (the device has not
\* restarted), the receive buffer is empty, whatever the outcome was and
\* whatever the types of the message's values are.
C26_BufferEmptyAfterProcessing ==
  (peer.msg # 0 /\ h_result \notin {"none", "ignored", "incomplete"}
     /\ pc # "reset")
  => rx_buf = <<>>

\* C27: when reset() is called from the write handler, save_config has
\* returned, the saved flag is set and `saved` is what was notified; start()
\* calls it only after the loop was left with the saved flag set.  reset()
\* is never called in a session that has saved nothing, and never when
\* auto_reset is false; a device that has restarted has the new record in
\* its file.
C27_SaveThenRestart ==
  /\ [](h_resets > 0 => (saved /\ setup.auto_reset))
  /\ [](pc = "reset" =>
          /\ h_resets > 0 /\ h_result = "saved" /\ h_save = "ok"
          /\ file.st = "new" /\ tx_log = <<_STATUS_SAVED>>)
  /\ [][h_resets' > h_resets =>
          \/ pc = "exit" /\ saved
          \/ /\ h_save' = "ok" /\ file'.st = "new" /\ saved'
             /\ tx_log' = <<_STATUS_SAVED>>]_vars

\* the device has restarted after a valid message
C27_Witness ==
  /\ pc = "reset" /\ h_resets = 1 /\ setup.auto_reset
  /\ peer.msg \in ValidMsgs /\ h_result = "saved"
  /\ saved /\ file.st = "new" /\ tx_log = <<_STATUS_SAVED>>

Upto(t, n) == [i \in 1..(IF Len(t) < n THEN Len(t) ELSE n) |-> t[i]]

\* the field that is there and not empty: f, else g, else the empty text
FirstGiven(f, g) ==
  IF f.has /\ f.s # <<>> THEN f.s
  ELSE IF g.has THEN g.s
  ELSE <<>>

\* C29: a record is handed to save_config exactly when device_id, ssid and
\* the public key (the top-level field if it is not empty, else the one in
\* key_pair) are there and not empty, and it is: device_id cut to 64
\* characters, ssid to 32, wifi_password (the field wifi_password, else
\* password, else empty) to 64, network_id (the field, or mainnet01 when it
\* is absent) to 32, the public key to 128 and the secret key (looked up the
\* same way, empty when absent) to 128.
C29_PersistedRecord ==
  (call.fn = "_process_device_config" /\ call.done) =>
    LET m == call.in
        pub == FirstGiven(m.pk, m.kpk)
        sec == FirstGiven(m.sk, m.ksk)
    IN /\ call.out.result = "saved"
            <=> (FirstGiven(m.d, Absent) # <<>> /\ FirstGiven(m.s, Absent) # <<>>
                 /\ pub # <<>>)
       /\ call.out.result # "saved" => call.out.rec = NoRecord
       /\ call.out.result = "saved" =>
            call.out.rec =
              [ device_id |-> Upto(m.d.s, 64),
                ssid |-> Upto(m.s.s, 32),
                wifi_password |-> Upto(FirstGiven(m.w, m.p), 64),
                network_id |-> Upto(IF m.n.has THEN m.n.s ELSE S_mainnet01, 32),
                publicKey |-> Upto(pub, 128),
                secretKey |-> Upto(sec, 128) ]

\* a record built from a long device_id, the field password, no network_id,
\* an empty top-level public key and the keys of key_pair
C29_Witness ==
  /\ call.fn = "_process_device_config" /\ call.done
  /\ call.out.result = "saved"
  /\ Len(call.in.d.s) = 64 + 1 /\ Len(call.out.rec.device_id) = 64
  /\ ~call.in.w.has /\ call.out.rec.wifi_password = <<112>>
  /\ ~call.in.n.has /\ call.out.rec.network_id = S_mainnet01
  /\ call.in.pk = Present(<<>>) /\ call.out.rec.publicKey = <<113>>
  /\ ~call.in.sk.has /\ Len(call.out.rec.secretKey) = 128

\* the pieces one after the other
RECURSIVE Joined(_)
Joined(chunks) ==
  IF chunks = <<>> THEN <<>> ELSE chunks[1] \o Joined(Tail(chunks))

\* the bytes of a payload: those of bytes, the UTF-8 encoding of a text
PayloadBytes(data) == IF data.str THEN Utf8Encode(data.v) ELSE data.v

\* C30: the pieces _notify_bytes hands to the transport have at most
\* max(20, MTU - 3) bytes each and, one after the other, are the beginning
\* of the payload; when no send fails they are the whole payload and the
\* call returns true.
C30_ChunkedNotify ==
  (call.fn = "_notify_bytes" /\ call.done) =>
    LET payload == PayloadBytes(call.in.data)
        limit == IF call.in.mtu - 3 > 20 THEN call.in.mtu - 3 ELSE 20
        sent == Joined(call.out.chunks)
    IN /\ \A i \in 1..Len(call.out.chunks) :
            Len(call.out.chunks[i]) \in 1..limit
       /\ Len(sent) <= Len(payload)
       /\ sent = SubSeq(payload, 1, Len(sent))
       /\ (call.in.conn /\ (call.in.fail_at = 0
             \/ (call.in.fail_at - 1) * limit >= Len(payload)))
            => (sent = payload /\ call.out.ret = TRUE)

\* a text whose encoding is longer than the text, sent whole in five pieces
\* of which the last is the shortest
C30_Witness ==
  /\ call.fn = "_notify_bytes" /\ call.done /\ call.in.data.str
  /\ call.in.mtu = 23 /\ call.in.conn /\ call.in.fail_at = 0
  /\ Len(PayloadBytes(call.in.data)) > Len(call.in.data.v)
  /\ Len(call.out.chunks) = 5 /\ Len(call.out.chunks[5]) < 20
  /\ call.out.ret = TRUE /\ call.out.dt = 20

\* the pieces of a payload, `limit` bytes each but the last
Pieces(payload, limit) ==
  [i \in 1..((Len(payload) + limit - 1) \div limit) |->
     SubSeq(payload, (i - 1) * limit + 1,
            IF i * limit < Len(payload) THEN i * limit ELSE Len(payload))]

\* C31: when the transport rejects the k-th piece of a notification (with
\* no connection: the first), _notify_bytes returns false, has called
\* gatts_notify exactly k times, once for each of the first k pieces in
\* order, so with no piece after the k-th and no second call for the k-th,
\* and raises nothing to its caller.
C31_AbortOnFirstFailure ==
  (call.fn = "_notify_bytes" /\ call.done) =>
    LET limit == IF call.in.mtu - 3 > 20 THEN call.in.mtu - 3 ELSE 20
        pieces == Pieces(PayloadBytes(call.in.data), limit)
        k == FirstRaise(call.in)
    IN /\ ~call.out.raised
       /\ k \in 1..Len(pieces) =>
            /\ call.out.ret = FALSE
            /\ call.out.calls = SubSeq(pieces, 1, k)
            /\ call.out.chunks = SubSeq(pieces, 1, k - 1)

\* a notification without a connection, given up at the first of its pieces
C31_NoConnection ==
  /\ call.fn = "_notify_bytes" /\ call.done
  /\ ~call.in.conn /\ Len(PayloadBytes(call.in.data)) > 20
  /\ call.out.ret = FALSE /\ ~call.out.raised
  /\ Len(call.out.calls) = 1 /\ call.out.chunks = <<>>

\* the second of four pieces is rejected
C31_Witness ==
  /\ call.fn = "_notify_bytes" /\ call.done
  /\ call.in.conn /\ call.in.fail_at = 2 /\ call.in.mtu = 23
  /\ Len(PayloadBytes(call.in.data)) = 3 * 20 + 1
  /\ call.out.ret = FALSE /\ ~call.out.raised
  /\ Len(call.out.calls) = 2 /\ Len(call.out.chunks) = 1

\* what the radio sends after a _start_advertising call of which it
\* rejected the first k attempts
RadioAfter(k) ==
  CASE k = 0 -> {"fast", "slow"}
    [] k = 1 -> {"100ms"}
    [] k = 2 -> {"minimal"}
    [] OTHER -> {}

\* C32: _start_advertising tries the requested interval, then 100 ms, then
\* the payload-less advertisement, in that order: on a radio that rejects
\* the first k attempts of a call the radio sends what the (k+1)-th attempt
\* asked for, and nothing when k = 3.  The call of start() sets the
\* advertising flag to whether an attempt succeeded; when all three failed
\* start() returns false and the supervisor loop is not entered.
C32_AdvertisingFallback ==
  /\ []((~setup.flaky /\ radio_adv # "off")
          => radio_adv \in RadioAfter(setup.adv_fail))
  /\ [][(pc = "new" /\ setup.bt) =>
          /\ advertising' = (setup.adv_fail < 3)
          /\ (radio_adv' # "off") = (setup.adv_fail < 3)
          /\ setup.adv_fail < 3 => pc' = "loop"
          /\ setup.adv_fail = 3 =>
               (pc' = "done" /\ ret' = FALSE /\ h_exit' = h_exit)]_vars

\* the slow interval and the 100 ms interval were rejected, the
\* payload-less advertisement is on the air after the discovery window
C32_Witness ==
  /\ pc = "exit" /\ setup.adv_fail = 2 /\ advertising
  /\ radio_adv = "minimal"
  /\ ticks_diff(now, start_ms) > 60000

\* all three attempts of the call of start() were rejected
C32_AllFailed ==
  /\ pc = "done" /\ setup.adv_fail = 3 /\ ret = FALSE /\ ~advertising
  /\ radio_adv = "off" /\ h_exit = "none"

\* the text the brace walk of _is_complete runs on
Walked(t) ==
  LET s == Trimmed(t)
  IN IF IsQuoted(s) /\ json_loads(s).ok /\ json_loads(s).val.t = "str"
       THEN Trimmed(json_loads(s).val.s) ELSE s

\* C33: a text _is_complete reports complete holds exactly one top-level
\* object: its brace depth, counted outside strings and escapes, is zero for
\* the first time at its final character.
C33_OneTopLevelObject ==
  complete_res = "true" =>
    \A k \in 1..(Len(Walked(txt)) - 1) : Depth(Walked(txt), k) > 0

\* a text found complete whose depth is zero at its end only
C33_SingleObject ==
  /\ complete_res = "true" /\ Len(Walked(txt)) = MaxTextLen
  /\ \A k \in 1..(Len(Walked(txt)) - 1) : Depth(Walked(txt), k) > 0

\* C34: the saved flag is false when start() is called, and a step changes
\* it only from false to true and only as a write event in which
\* save_config returned and left the record in the file.
C34_SavedMonotonic ==
  /\ [](pc = "new" => ~saved)
  /\ [][saved' # saved =>
          /\ ~saved /\ saved'
          /\ peer'.msg # 0 /\ h_result' = "saved" /\ h_save' = "ok"
          /\ file'.st = "new"]_vars

\* the flag is set and a later message has failed to save; the central has
\* gone and the session is in its cleanup
C34_Witness ==
  /\ saved /\ h_saved /\ h_save \in SaveOutcomes \ {"ok"}
  /\ ~connected /\ pc = "cl_conn"

\* `save_failed` is among the notifications of the last write event
SaveFailedSent ==
  /\ peer.msg # 0 /\ h_result # "ignored"
  /\ \E i \in 1..Len(tx_log) : tx_log[i] = _ERROR_SAVE_FAIL

\* C35: when a write event has notified `save_failed`, it has stored no
\* complete record (the file is as before or partly written), the saved
\* flag is false, and `saved` is not among the notifications of the event.
C35_SaveFailedOnlyUnsaved ==
  SaveFailedSent =>
    /\ file = h_file \/ file.st = "partial"
    /\ ~saved
    /\ \A i \in 1..Len(tx_log) : tx_log[i] # _STATUS_SAVED

\* the same for events in which the sync of save_config did not raise and
\* that began with the saved flag false
C35_UnlessSyncOrSecondSave ==
  (SaveFailedSent /\ h_save # "sync_fails" /\ ~h_saved) =>
    /\ file = h_file \/ file.st = "partial"
    /\ ~saved
    /\ \A i \in 1..Len(tx_log) : tx_log[i] # _STATUS_SAVED

\* after a save the notification and restart steps leave `saved` the only
\* notification of the event, whether reset() restarts the device or returns
C35_SavedAlone ==
  (peer.msg # 0 /\ h_result # "ignored" /\ h_save = "ok")
    => tx_log = <<_STATUS_SAVED>>

\* C36: once the supervisor loop has been left on timeout, no step stores a
\* record or calls reset(), the device does not restart, and start()
\* returns false.
C36_NothingAfterTimeout ==
  [][h_exit = "timeout" =>
       /\ file' = file
       /\ h_resets' = h_resets /\ pc' # "reset"
       /\ pc' = "done" => ret' = FALSE]_vars

\* the same for the steps that are no write event and are taken with
\* nothing saved
C36_UnlessLateWrite ==
  [][(h_exit = "timeout" /\ ~saved /\ n_ops' = n_ops) =>
       /\ file' = file
       /\ h_resets' = h_resets /\ pc' # "reset"
       /\ pc' = "done" => ret' = FALSE]_vars

\* C37: when start() has returned after the supervisor loop, on timeout or
\* saved without a restart, the session has no connection handle, is not
\* connected and is not advertising, whatever handle the transport gave.
C37_CleanAfterReturn ==
  (pc = "done" /\ h_exit \in {"timeout", "saved"}) =>
    /\ conn = NoConn
    /\ ~connected
    /\ ~advertising

\* what the cleanup steps themselves leave: advertising off, and for a
\* handle other than 0 no handle and not connected
C37_CleanupSteps ==
  [][pc' # pc =>
       /\ pc = "cl_adv" => ~advertising'
       /\ (pc = "cl_conn" /\ conn # 0) => (conn' = NoConn /\ ~connected')]_vars

\* C38: the connected flag and the advertising flag are never both true.
C38_ConnectedXorAdvertising == ~(connected /\ advertising)

\* no step but a connect event makes both flags true
C38_OnlyByConnect ==
  [][(connected' /\ advertising') =>
       ((connected /\ advertising) \/ (~connected /\ connected'))]_vars

\* the switch of lines 594-602 has been made in this session
Switched == fast_adv_until # start_ms + 60000

\* C39: once the switch to slow advertising has been made, passes of the
\* supervisor loop that begin with no central connected and advertising
\* inactive, and in which the liveness check restarts advertising on a
\* radio that works, restart it in slow mode.
C39_SlowRestart ==
  [][(/\ pc = "loop" /\ pc' = "loop" /\ now' # now /\ link' = link
      /\ Switched
      /\ ~connected /\ ~connected' /\ ~saved /\ ~advertising
      /\ setup' = setup /\ setup.adv_fail = 0
      /\ advertising')
     => radio_adv' = "slow"]_vars

\* the same restarts before the switch are in fast mode
C39_FastBeforeSwitch ==
  [][(/\ pc = "loop" /\ pc' = "loop" /\ now' # now /\ link' = link
      /\ ~Switched /\ ~Switched'
      /\ ~connected /\ ~connected' /\ ~saved /\ ~advertising
      /\ setup' = setup /\ setup.adv_fail = 0
      /\ advertising')
     => radio_adv' = "fast"]_vars

\* C40: for every name the constructor stores, the advertising payload is
\* 3 flag bytes, a 2-byte header and the name, 4 service bytes and 3
\* transmit-power bytes, is at most 31 bytes long, and is advertised by the
\* first attempt, at the requested interval.
C40_PayloadFits ==
  (call.fn = "_adv_payload" /\ call.done) =>
    /\ Len(call.out.name) <= 20
    /\ Len(call.out.adv) = 3 + 2 + Len(Utf8Encode(call.out.name)) + 4 + 3
    /\ Len(call.out.adv) <= 31
    /\ call.out.sa.radio = "fast"

\* the same for the names of at most 19 bytes
C40_UpTo19Bytes ==
  (call.fn = "_adv_payload" /\ call.done
     /\ Len(Utf8Encode(call.out.name)) <= 19) =>
    /\ Len(call.out.name) <= 20
    /\ Len(call.out.adv) = 3 + 2 + Len(Utf8Encode(call.out.name)) + 4 + 3
    /\ Len(call.out.adv) <= 31
    /\ call.out.sa.radio = "fast"

\* a name of 20 ASCII characters: 32 bytes, advertised without payload
C40_TwentyCharacters ==
  /\ call.fn = "_adv_payload" /\ call.done
  /\ call.in.name = NameOf(20, 0) /\ call.out.name = call.in.name
  /\ Len(call.out.adv) = 32 /\ call.out.sa.radio = "minimal"

====
